---- MODULE Spec2Model ----
(***************************************************************************)
(* Forge automation hub (isLenk/roblox-forge-scripts): the activity flags  *)
(* of ForgeMod, the handlers that arbitrate them, and the polling threads  *)
(* (GO watcher, bar loop, ring loop, jiggle loop, autoclicker, hold-key)   *)
(* that read them.                                                         *)
(*                                                                         *)
(* Threads are Python threads: a switch can happen between any two         *)
(* statements, and every blocking call (screen grab, sleep, SendInput) is  *)
(* a point where the other threads and the user run.  Each loop thread is  *)
(* therefore a small program counter over the statements between its       *)
(* blocking calls.                                                         *)
(*                                                                         *)
(* Time is kept as timer ages in centiseconds (0.01 s): where the code     *)
(* stores a timestamp t and later tests time.time() - t >= d, the model    *)
(* stores the age time.time() - t, saturated at d; where it stores a       *)
(* deadline and tests time.time() >= deadline, the model stores the time   *)
(* left, stopping at 0.                                                    *)
(***************************************************************************)
EXTENDS Integers, Sequences, FiniteSets, TLC

VARIABLES
    running,        \* hub.running
    focused,        \* what hub.focus.is_focused() returns now
    mon_h,          \* hub.monitors.rect['height']
    forge_enabled,  \* ForgeMod.forge_enabled
    auto_phase,     \* ForgeMod.auto_phase
    phase_idx,      \* ForgeMod.phase_idx
    jiggle_active,  \* cursor_jiggle.active
    bar_active,     \* bar_game.active
    shaping,        \* bar_game.shaping
    circle_active,  \* circle_detector.active
    ac_active,      \* autoclicker._active
    hold_active,    \* hold_left._active
    go_pc,          \* GO watcher thread: position in GoDetector._loop / _advance_phase
    go_cool,        \* cooldown_until - time.time(), 0 when passed
    go_phase,       \* _advance_phase local: index of phase, read before the stops
    usr_pc,         \* user thread (hotkey / GUI callback): position in _on_node_click
    usr_idx,        \* idx of the _on_node_click call under way
    bar_pc,         \* bar loop thread: position in BarGame._loop
    clicking,       \* BarGame._loop local: the loop holds the left button
    yellow_gone,    \* age of yellow_gone_since, -1 when yellow_gone_since == 0
    last_shape,     \* age of last_shape_click
    ring_pc,        \* ring loop thread: position in CircleDetector._loop
    state,          \* CircleDetector._loop local state
    lost_frames,    \* CircleDetector._loop local
    track,          \* (track_x, track_y)
    ring_shown,     \* CircleDetector._loop local
    green_age,      \* age of green_seen_at while READY (not read elsewhere)
    cd_left,        \* cooldown_end - time.time() while COOLDOWN, 0 when passed
    jig_pc,         \* jiggle loop thread: position in CursorJiggle._loop
    going_up,       \* CursorJiggle._loop local
    jig_i,          \* CursorJiggle._loop: i of the sweep under way
    ac_pc,          \* autoclicker thread: position in AutoclickerComponent._loop
    hk_pc,          \* hold-key thread: position in HoldKeyComponent._loop
    was_holding,    \* HoldKeyComponent._loop local
    left_key,       \* the injected state of the held key: TRUE after key-down
    ev,             \* the input events injected by the last step, in order
    handover,       \* history: a loop was started while the bar loop held the button
    ring_clicks,    \* history: button-downs since the ring loop last entered READY
    ring_paused,    \* history: the ring loop's last finished tick was a pause tick
    scope,          \* which loop thread this run follows (SpecFocus)
    in_band,        \* history: the bar loop's last tracking tick found the marker
                    \* within the deadband of the zone's centre
    shape_pt,       \* BarGame._loop locals (cx, cy) between the two events of a
                    \* shaping click, <<>> otherwise (they are not read again)
    shape_age,      \* history: time since the bar loop's last shaping button-down
    bar_last,       \* history: the last mouse-button event the bar loop sent, "up"
                    \* before the first (no button is held)
    by_hand,        \* history: _on_node_click(2) switched shaping on and no handler
                    \* has stopped the bar game or left shaping since
    hotkeys_enabled,\* hub.hotkeys.enabled
    key_dropped,    \* history: the last hotkey whose press the wrapper of
                    \* _register_mod_hotkeys returned on, "none" before the first
    sprint_active,  \* sprint._active
    sell_active,    \* auto_sell._active
    executing,      \* auto_sell._executing
    sell_pc,        \* auto-sell thread: position in AutoSellComponent._loop and
                    \* the number of steps of the sequence done
    thread_ref,     \* per loop component: _thread, 0 for None, else the number of
                    \* the Thread object it refers to
    thread_st,      \* per loop component: the state of each Thread object created
    start_pc,       \* per calling thread: position in start() and the component
    call            \* the last call of a function of core/focus.py or core/input.py:
                    \* its name, arguments and result

hubVars == <<running, focused, mon_h>>
modVars == <<forge_enabled, auto_phase, phase_idx, jiggle_active, bar_active,
             shaping, circle_active, ac_active, hold_active>>
goVars == <<go_pc, go_cool, go_phase>>
usrVars == <<usr_pc, usr_idx>>
barVars == <<bar_pc, clicking, yellow_gone, last_shape, in_band, shape_pt, shape_age,
             bar_last>>
extVars == <<hotkeys_enabled, key_dropped, sprint_active, sell_active, executing,
             sell_pc, thread_ref, thread_st, start_pc>>
ringVars == <<ring_pc, state, lost_frames, track, ring_shown, green_age, cd_left,
              ring_clicks, ring_paused>>
jigVars == <<jig_pc, going_up, jig_i>>
acVars == <<ac_pc>>
hkVars == <<hk_pc, was_holding>>
vars == <<running, focused, mon_h, forge_enabled, auto_phase, phase_idx,
          jiggle_active, bar_active, shaping, circle_active, ac_active,
          hold_active, go_pc, go_cool, go_phase, usr_pc, usr_idx, bar_pc, clicking,
          yellow_gone, last_shape, ring_pc, state, lost_frames, track,
          ring_shown, green_age, cd_left, jig_pc, going_up, jig_i, ac_pc,
          hk_pc, was_holding, left_key, ev, handover, ring_clicks, ring_paused,
          scope, in_band, shape_pt, shape_age, bar_last, by_hand,
          hotkeys_enabled, key_dropped, sprint_active, sell_active, executing,
          sell_pc, thread_ref, thread_st, start_pc,
          call>>

------------------------------------------------------------------------------
(* Program constants *)

\* len(phases) in _advance_phase: ['jiggle', 'bar_game', 'circle']
NumPhases == 3
\* green_count > 5000
GoThreshold == 5000
\* cooldown_until = time.time() + 3.0, in centiseconds
GoCooldown == 300
\* cooldown_end = time.time() + 0.4, in centiseconds
RingCooldown == 40
\* lost_frames > 15
LostLimit == 15
\* dist < 150
NearRadius == 150
\* time.time() - yellow_gone_since >= 1.0, in centiseconds
YellowGrace == 100
\* now - last_shape_click >= 0.15, in centiseconds
ShapeGap == 15
\* len(yellow_ys) < 20
YellowMin == 20
\* steps = 30 in CursorJiggle._loop
JiggleSteps == 30
\* green_delay = 0.02 * (mon['height'] / 1080): numerator in centiseconds, and 1080
GreenBase == 2
RefHeight == 1080

\* The monitor heights a run may have
Heights == {1080, 2160}

Ev(s, k) == [src |-> s, kind |-> k]
NoEv == <<>>

\* no function of core/focus.py or core/input.py has been called
NoCall == [fn |-> "none"]

\* the loop components with a start() of their own that the handlers call
LoopNames == {"jiggle", "bar", "circle"}
\* the threads that run handlers: the keyboard hook, the Tk main loop and the
\* GO watcher
Callers == {"hotkey", "gui", "go"}

------------------------------------------------------------------------------
(* Initial state: GameHub.__init__, ForgeMod.__init__ / init, and the locals *)
(* each _loop sets before its while.                                         *)

InitState ==
    /\ running = TRUE
    /\ focused \in BOOLEAN
    /\ mon_h \in Heights
    /\ forge_enabled = FALSE
    /\ auto_phase = FALSE
    /\ phase_idx = 0
    /\ jiggle_active = FALSE
    /\ bar_active = FALSE
    /\ shaping = FALSE
    /\ circle_active = FALSE
    /\ ac_active = FALSE
    /\ hold_active = FALSE
    /\ go_pc = "check"
    /\ go_cool = 0
    /\ go_phase = 0
    /\ usr_pc = "idle"
    /\ usr_idx = 0
    /\ bar_pc = "check"
    /\ clicking = FALSE
    /\ yellow_gone = -1
    /\ last_shape = ShapeGap
    /\ ring_pc = "check"
    /\ state = "SCAN"
    /\ lost_frames = 0
    /\ track = <<0, 0>>
    /\ ring_shown = FALSE
    /\ green_age = (GreenBase * 2160) \div RefHeight
    /\ cd_left = 0
    /\ jig_pc = "check"
    /\ going_up = TRUE
    /\ jig_i = 0
    /\ ac_pc = "check"
    /\ hk_pc = "check"
    /\ was_holding = FALSE
    /\ left_key = FALSE
    /\ ev = NoEv
    /\ handover = FALSE
    /\ ring_clicks = 0
    /\ ring_paused = FALSE
    /\ in_band = FALSE
    /\ shape_pt = <<>>
    /\ shape_age = ShapeGap
    /\ bar_last = "up"
    /\ by_hand = FALSE
    /\ hotkeys_enabled = TRUE
    /\ key_dropped = "none"
    /\ sprint_active = FALSE
    /\ sell_active = FALSE
    /\ executing = FALSE
    /\ sell_pc = [at |-> "check", n |-> 0]
    /\ thread_ref = [c \in LoopNames |-> 0]
    /\ thread_st = [c \in LoopNames |-> <<>>]
    /\ start_pc = [t \in Callers |-> [pc |-> "idle", of |-> "none"]]
    /\ call = NoCall

\* every thread of the program is followed
Init == InitState /\ scope = "all"

------------------------------------------------------------------------------
(* ForgeMod handlers, each run to completion (mods/forge/mod.py) *)

\* The history variable of the handover: a handler that starts another loop
\* while the bar loop is active and holds the button sets it; it is cleared by
\* the bar loop's release.
HandoverAfter(starts_other) ==
    handover' = (handover \/ (starts_other /\ bar_active /\ clicking))

\* The history variable of the Shaping node: _on_node_click(2) switching shaping
\* on sets it; it lasts until a handler stops the bar game or leaves shaping.
ByHandAfter(switch_on) ==
    by_hand' = (switch_on \/ (by_hand /\ bar_active' /\ shaping'))

ToggleForge ==
    /\ running
    /\ usr_pc = "idle"
    /\ forge_enabled' = ~forge_enabled
    /\ IF forge_enabled
       THEN /\ circle_active' = FALSE
            /\ jiggle_active' = FALSE
            /\ bar_active' = FALSE
            /\ shaping' = FALSE
            /\ auto_phase' = FALSE
       ELSE UNCHANGED <<circle_active, jiggle_active, bar_active, shaping, auto_phase>>
    /\ ev' = NoEv
    /\ ByHandAfter(FALSE)
    /\ UNCHANGED <<phase_idx, ac_active, hold_active, left_key, handover, scope, extVars, call>>
    /\ UNCHANGED <<hubVars, goVars, usrVars, barVars, ringVars, jigVars, acVars, hkVars>>

NodeClick(idx, force) ==
    /\ running
    /\ usr_pc = "idle"
    /\ IF ~forge_enabled \/ (~force /\ ~focused)
       THEN UNCHANGED <<modVars, handover>>
       ELSE /\ auto_phase' = FALSE
            /\ CASE idx = 0 ->
                    IF jiggle_active
                    THEN /\ jiggle_active' = FALSE
                         /\ UNCHANGED <<circle_active, bar_active, shaping, ac_active>>
                         /\ HandoverAfter(FALSE)
                    ELSE /\ circle_active' = FALSE
                         /\ bar_active' = FALSE
                         /\ shaping' = FALSE
                         /\ ac_active' = FALSE
                         /\ jiggle_active' = TRUE
                         /\ HandoverAfter(TRUE)
                 [] idx = 1 ->
                    IF bar_active /\ ~shaping
                    THEN /\ bar_active' = FALSE
                         /\ shaping' = FALSE
                         /\ UNCHANGED <<circle_active, jiggle_active, ac_active>>
                         /\ HandoverAfter(FALSE)
                    ELSE /\ circle_active' = FALSE
                         /\ jiggle_active' = FALSE
                         /\ ac_active' = FALSE
                         /\ shaping' = FALSE
                         /\ bar_active' = TRUE
                         /\ HandoverAfter(FALSE)
                 [] idx = 2 ->
                    IF shaping
                    THEN /\ bar_active' = FALSE
                         /\ shaping' = FALSE
                         /\ UNCHANGED <<circle_active, jiggle_active, ac_active>>
                         /\ HandoverAfter(FALSE)
                    ELSE /\ circle_active' = FALSE
                         /\ jiggle_active' = FALSE
                         /\ ac_active' = FALSE
                         /\ shaping' = TRUE
                         /\ bar_active' = TRUE
                         /\ HandoverAfter(FALSE)
                 [] idx = 3 ->
                    IF circle_active
                    THEN /\ circle_active' = FALSE
                         /\ UNCHANGED <<jiggle_active, bar_active, shaping, ac_active>>
                         /\ HandoverAfter(FALSE)
                    ELSE /\ jiggle_active' = FALSE
                         /\ bar_active' = FALSE
                         /\ shaping' = FALSE
                         /\ ac_active' = FALSE
                         /\ circle_active' = TRUE
                         /\ HandoverAfter(TRUE)
            /\ UNCHANGED <<forge_enabled, phase_idx, hold_active>>
    /\ ev' = NoEv
    /\ ByHandAfter(forge_enabled /\ (force \/ focused) /\ idx = 2 /\ ~shaping)
    /\ UNCHANGED <<left_key, scope, extVars, call>>
    /\ UNCHANGED <<hubVars, goVars, usrVars, barVars, ringVars, jigVars, acVars, hkVars>>

\* ToggleAutoPhase with bar_game.stop() left out
ToggleAutoPhase_KeepBar(force) ==
    /\ running
    /\ usr_pc = "idle"
    /\ IF ~forge_enabled \/ (~force /\ ~focused)
       THEN UNCHANGED modVars
       ELSE /\ IF auto_phase
               THEN /\ auto_phase' = FALSE
                    /\ UNCHANGED <<phase_idx, circle_active, bar_active, shaping,
                                   jiggle_active>>
               ELSE /\ auto_phase' = TRUE
                    /\ phase_idx' = -1
                    /\ circle_active' = FALSE
                    /\ UNCHANGED <<bar_active, shaping>>
                    /\ jiggle_active' = FALSE
            /\ UNCHANGED <<forge_enabled, ac_active, hold_active>>
    /\ ev' = NoEv
    /\ ByHandAfter(FALSE)
    /\ UNCHANGED <<left_key, handover, scope, extVars, call>>
    /\ UNCHANGED <<hubVars, goVars, usrVars, barVars, ringVars, jigVars, acVars, hkVars>>

\* lines 916-929
ToggleAutoPhase(force) ==
    /\ running
    /\ usr_pc = "idle"
    /\ IF ~forge_enabled \/ (~force /\ ~focused)
       THEN UNCHANGED modVars
       ELSE /\ IF auto_phase
               THEN /\ auto_phase' = FALSE
                    /\ UNCHANGED <<phase_idx, circle_active, bar_active, shaping,
                                   jiggle_active>>
               ELSE /\ auto_phase' = TRUE
                    /\ phase_idx' = -1
                    /\ circle_active' = FALSE
                    /\ bar_active' = FALSE
                    /\ shaping' = FALSE
                    /\ jiggle_active' = FALSE
            /\ UNCHANGED <<forge_enabled, ac_active, hold_active>>
    /\ ev' = NoEv
    /\ ByHandAfter(FALSE)
    /\ UNCHANGED <<left_key, handover, scope, extVars, call>>
    /\ UNCHANGED <<hubVars, goVars, usrVars, barVars, ringVars, jigVars, acVars, hkVars>>

ToggleAutoclicker(force) ==
    /\ running
    /\ usr_pc = "idle"
    /\ IF ~force /\ ~focused
       THEN UNCHANGED <<ac_active, handover>>
       ELSE /\ ac_active' = ~ac_active
            /\ HandoverAfter(~ac_active)
    /\ ev' = NoEv
    /\ UNCHANGED <<forge_enabled, auto_phase, phase_idx, jiggle_active, bar_active,
                   shaping, circle_active, hold_active, left_key, scope, by_hand, extVars, call>>
    /\ UNCHANGED <<hubVars, goVars, usrVars, barVars, ringVars, jigVars, acVars, hkVars>>

\* _toggle_hold_left: HoldKeyComponent.toggle; stop() also sends the key-up.
ToggleHoldLeft(force) ==
    /\ running
    /\ usr_pc = "idle"
    /\ IF ~force /\ ~focused
       THEN UNCHANGED <<hold_active, left_key>> /\ ev' = NoEv
       ELSE IF hold_active
            THEN /\ hold_active' = FALSE
                 /\ left_key' = FALSE
                 /\ ev' = <<Ev("hold", "keyup")>>
            ELSE /\ hold_active' = TRUE
                 /\ UNCHANGED left_key
                 /\ ev' = NoEv
    /\ UNCHANGED <<forge_enabled, auto_phase, phase_idx, jiggle_active, bar_active,
                   shaping, circle_active, ac_active, handover, scope, by_hand, extVars, call>>
    /\ UNCHANGED <<hubVars, goVars, usrVars, barVars, ringVars, jigVars, acVars, hkVars>>

\* _advance_phase that leaves auto_phase on at the last phase
AdvancePhase_KeepAuto ==
    /\ phase_idx' = phase_idx + 1
    /\ IF phase_idx + 1 >= NumPhases
       THEN UNCHANGED <<circle_active, jiggle_active, bar_active, shaping, auto_phase,
                        handover>>
       ELSE /\ jiggle_active' = (phase_idx + 1 = 0)
            /\ bar_active' = (phase_idx + 1 = 1)
            /\ shaping' = FALSE
            /\ circle_active' = (phase_idx + 1 = 2)
            /\ UNCHANGED auto_phase
            /\ HandoverAfter(phase_idx + 1 # 1)

\* _advance_phase, as the assignments it makes
AdvancePhase ==
    /\ phase_idx' = phase_idx + 1
    /\ IF phase_idx + 1 >= NumPhases
       THEN UNCHANGED <<circle_active, jiggle_active, bar_active, shaping, auto_phase,
                        handover>>
       ELSE /\ jiggle_active' = (phase_idx + 1 = 0)
            /\ bar_active' = (phase_idx + 1 = 1)
            /\ shaping' = FALSE
            /\ circle_active' = (phase_idx + 1 = 2)
            /\ auto_phase' = IF phase_idx + 1 = 2 THEN FALSE ELSE auto_phase
            /\ HandoverAfter(phase_idx + 1 # 1)

\* GameHub._quit: running = False, then ForgeMod.destroy -> stop(): every
\* component's stop() in use_component order (autoclicker, sprint, hold_left,
\* periodic_attack, auto_sell, macro_editor), then the three forge loops.
Quit ==
    /\ running
    /\ usr_pc = "idle"
    /\ running' = FALSE
    /\ ac_active' = FALSE
    /\ hold_active' = FALSE
    /\ left_key' = FALSE
    /\ circle_active' = FALSE
    /\ jiggle_active' = FALSE
    /\ bar_active' = FALSE
    /\ shaping' = FALSE
    /\ ev' = <<Ev("sprint", "keyup"), Ev("hold", "keyup")>>
    /\ ByHandAfter(FALSE)
    /\ sprint_active' = FALSE
    /\ sell_active' = FALSE
    /\ UNCHANGED <<focused, mon_h, forge_enabled, auto_phase, phase_idx, handover, scope, call,
                   hotkeys_enabled, key_dropped, executing, sell_pc, thread_ref,
                   thread_st, start_pc>>
    /\ UNCHANGED <<goVars, usrVars, barVars, ringVars, jigVars, acVars, hkVars>>

------------------------------------------------------------------------------
(* The environment: focus and time *)

FocusChange ==
    /\ focused' = ~focused
    /\ ev' = NoEv
    /\ UNCHANGED <<running, mon_h, left_key, handover, scope, by_hand, extVars, call>>
    /\ UNCHANGED <<modVars, goVars, usrVars, barVars, ringVars, jigVars, acVars, hkVars>>

Min(a, b) == IF a < b THEN a ELSE b
Max(a, b) == IF a > b THEN a ELSE b

\* the largest green_delay of any monitor, where green_age saturates
GreenMax == (GreenBase * 2160) \div RefHeight

\* d centiseconds pass
Tick(d) ==
    /\ go_cool' = Max(go_cool - d, 0)
    /\ cd_left' = Max(cd_left - d, 0)
    /\ green_age' = Min(green_age + d, GreenMax)
    /\ yellow_gone' = IF yellow_gone < 0 THEN yellow_gone
                      ELSE Min(yellow_gone + d, YellowGrace)
    /\ last_shape' = Min(last_shape + d, ShapeGap)
    /\ shape_age' = Min(shape_age + d, ShapeGap)
    /\ <<go_cool', cd_left', green_age', yellow_gone', last_shape', shape_age'>>
         # <<go_cool, cd_left, green_age, yellow_gone, last_shape, shape_age>>
    /\ ev' = NoEv
    /\ UNCHANGED <<hubVars, modVars, go_pc, go_phase, usrVars, bar_pc, clicking, in_band, shape_pt,
                   bar_last, ring_pc, state,
                   lost_frames, track, ring_shown, ring_clicks, ring_paused, jigVars, acVars,
                   hkVars, left_key, handover, scope, by_hand, extVars, call>>

TickSecond == Tick(100)

------------------------------------------------------------------------------
(* GO watcher thread: GoDetector._loop (mods/forge/go_detector.py) *)

GoCounts == {0, GoThreshold, GoThreshold + 1}

\* GoCheck with the focus test left out
GoCheck_NoFocus ==
    /\ go_pc = "check"
    /\ IF ~running
       THEN go_pc' = "exit"
       ELSE IF ~auto_phase \/ go_cool > 0
            THEN go_pc' = "check"
            ELSE go_pc' = "sample"
    /\ ev' = NoEv
    /\ UNCHANGED <<go_cool, go_phase, left_key, handover, scope, by_hand, extVars, call>>
    /\ UNCHANGED <<hubVars, modVars, usrVars, barVars, ringVars, jigVars, acVars, hkVars>>

\* GoCheck with the cooldown test of lines 35-37 left out
GoCheck_NoCooldown ==
    /\ go_pc = "check"
    /\ IF ~running
       THEN go_pc' = "exit"
       ELSE IF ~auto_phase \/ ~focused
            THEN go_pc' = "check"
            ELSE go_pc' = "sample"
    /\ ev' = NoEv
    /\ UNCHANGED <<go_cool, go_phase, left_key, handover, scope, by_hand, extVars, call>>
    /\ UNCHANGED <<hubVars, modVars, usrVars, barVars, ringVars, jigVars, acVars, hkVars>>

\* top of the while: the running test, the auto_phase / focus test and the
\* cooldown test; past them the thread grabs the screen
GoCheck ==
    /\ go_pc = "check"
    /\ IF ~running
       THEN go_pc' = "exit"
       ELSE IF ~auto_phase \/ ~focused \/ go_cool > 0
            THEN go_pc' = "check"
            ELSE go_pc' = "sample"
    /\ ev' = NoEv
    /\ UNCHANGED <<go_cool, go_phase, left_key, handover, scope, by_hand, extVars, call>>
    /\ UNCHANGED <<hubVars, modVars, usrVars, barVars, ringVars, jigVars, acVars, hkVars>>

\* GoSampleOn with green_count >= 5000 for green_count > 5000
GoSampleOn_AtLeast(green_count) ==
    /\ go_pc = "sample"
    /\ IF green_count >= GoThreshold
       THEN /\ AdvancePhase
            /\ go_cool' = GoCooldown
       ELSE UNCHANGED <<phase_idx, circle_active, jiggle_active, bar_active, shaping,
                        auto_phase, handover, go_cool>>
    /\ go_pc' = "check"
    /\ ev' = NoEv
    /\ ByHandAfter(FALSE)
    /\ UNCHANGED <<forge_enabled, ac_active, hold_active, go_phase, left_key, scope, extVars, call>>
    /\ UNCHANGED <<hubVars, usrVars, barVars, ringVars, jigVars, acVars, hkVars>>

\* lines 39-57: the grab is back with green_count green pixels in the centre
\* region: advance on GO
GoSampleOn(green_count) ==
    /\ go_pc = "sample"
    /\ IF green_count > GoThreshold
       THEN /\ AdvancePhase
            /\ go_cool' = GoCooldown
       ELSE UNCHANGED <<phase_idx, circle_active, jiggle_active, bar_active, shaping,
                        auto_phase, handover, go_cool>>
    /\ go_pc' = "check"
    /\ ev' = NoEv
    /\ ByHandAfter(FALSE)
    /\ UNCHANGED <<forge_enabled, ac_active, hold_active, go_phase, left_key, scope, extVars, call>>
    /\ UNCHANGED <<hubVars, usrVars, barVars, ringVars, jigVars, acVars, hkVars>>

GoSample == \E green_count \in GoCounts : GoSampleOn(green_count)

------------------------------------------------------------------------------
(* Bar loop thread: BarGame._loop (mods/forge/bar_game.py) *)

barOther == <<hubVars, forge_enabled, auto_phase, phase_idx, jiggle_active, bar_active,
              circle_active, ac_active, hold_active, goVars, usrVars, ringVars,
              jigVars, acVars, hkVars, left_key, scope, by_hand, extVars, call>>

barRest == <<barOther, shape_pt, shape_age>>

barFrame == <<barRest, in_band>>

\* line 96: left and top of the selected monitor's rect; the primary monitor
\* is at the origin, the 2160-line one stands to its right and reaches above it
MonLeft == IF mon_h = RefHeight THEN 0 ELSE 1920
MonTop == IF mon_h = RefHeight THEN 0 ELSE -540
\* its width
MonWidth == IF mon_h = RefHeight THEN 1920 ELSE 3840

\* random.randint(-15, 15), lines 91-92: both ends
Jitter == {-15, 15}

\* lines 93-94: cx = mon['left'] + int(mon['width'] * 0.6) + jx,
\* cy = mon['top'] + int(mon['height'] * 0.5) + jy
ShapeAt(jx, jy) == <<MonLeft + (6 * MonWidth) \div 10 + jx, MonTop + mon_h \div 2 + jy>>

\* an event sent to the screen point at
EvAt(s, k, at) == [src |-> s, kind |-> k, at |-> at]

\* What one grab shows the bar loop: len(yellow_ys), the 5th and 95th percentile
\* of yellow_ys, and white_cy (-1: white_count <= 5, white_cy is None)
NoWhite == -1
BarFrames ==
    [ycount : {0, YellowMin - 1, YellowMin},
     y_min : {40},
     y_max : {57, 120},
     white_cy : {NoWhite, 44, 45, 50, 55, 56, 79, 80, 90, 100, 101}]

\* YellowCy with the middle of the zone for the point 62.5% down
YellowCy_Midpoint(f) == f.y_min + (f.y_max - f.y_min) \div 2

\* yellow_cy = y_min + int((y_max - y_min) * 0.625)
YellowCy(f) == f.y_min + (5 * (f.y_max - f.y_min)) \div 8
\* bar_half = max((y_max - y_min) // 2, 1); deadband = max(5, bar_half // 4)
Deadband(f) == Max(5, Max((f.y_max - f.y_min) \div 2, 1) \div 4)

\* inp.send_mouse(LEFTUP) by the bar loop when clicking, else nothing
BarRelease ==
    IF clicking
    THEN /\ ev' = <<Ev("bar", "up")>>
         /\ clicking' = FALSE
         /\ handover' = FALSE
         /\ bar_last' = "up"
    ELSE /\ ev' = NoEv
         /\ UNCHANGED <<clicking, handover, bar_last>>

\* while self.hub.running: false
BarExit ==
    /\ bar_pc = "check"
    /\ ~running
    /\ bar_pc' = "exit"
    /\ ev' = NoEv
    /\ UNCHANGED <<clicking, yellow_gone, last_shape, shaping, handover, bar_last, barFrame>>

\* BarPause with the release left out
BarPause_NoRelease ==
    /\ bar_pc = "check"
    /\ running
    /\ ~bar_active \/ ~focused
    /\ ev' = NoEv
    /\ yellow_gone' = -1
    /\ bar_pc' = "pause_shaping"
    /\ UNCHANGED <<clicking, handover, bar_last, last_shape, shaping, barFrame>>

\* lines 48-54: not active or not focused: release, forget the yellow timer
BarPause ==
    /\ bar_pc = "check"
    /\ running
    /\ ~bar_active \/ ~focused
    /\ BarRelease
    /\ yellow_gone' = -1
    /\ bar_pc' = "pause_shaping"
    /\ UNCHANGED <<last_shape, shaping, barFrame>>

\* lines 55-59: if self.shaping: self.shaping = False; sleep; continue
BarPauseShaping ==
    /\ bar_pc = "pause_shaping"
    /\ shaping' = FALSE
    /\ bar_pc' = "check"
    /\ ev' = NoEv
    /\ UNCHANGED <<clicking, yellow_gone, last_shape, handover, bar_last, barFrame>>

\* lines 61-83: active and focused: grab the crop region
BarGrab ==
    /\ bar_pc = "check"
    /\ running
    /\ bar_active /\ focused
    /\ bar_pc' = "act"
    /\ ev' = NoEv
    /\ UNCHANGED <<clicking, yellow_gone, last_shape, shaping, handover, bar_last, barFrame>>

\* lines 90-98: a shaping click is due: button-down at the jittered point
BarShapeClick ==
    IF last_shape >= ShapeGap
    THEN /\ \E jx \in Jitter, jy \in Jitter :
              /\ shape_pt' = ShapeAt(jx, jy)
              /\ ev' = <<EvAt("bar", "down", ShapeAt(jx, jy))>>
         /\ last_shape' = 0
         /\ shape_age' = 0
         /\ bar_last' = "down"
         /\ bar_pc' = "shape_up"
    ELSE /\ ev' = NoEv
         /\ bar_pc' = "check"
         /\ UNCHANGED <<last_shape, shape_pt, shape_age, bar_last>>

\* BarShaping with the release of lines 86-88 left out
BarShaping_NoRelease ==
    /\ bar_pc = "act"
    /\ shaping
    /\ BarShapeClick
    /\ UNCHANGED <<clicking, handover>>
    /\ UNCHANGED <<yellow_gone, shaping, barOther, in_band>>

\* lines 85-89: if self.shaping: release what tracking held
BarShaping ==
    /\ bar_pc = "act"
    /\ shaping
    /\ IF clicking
       THEN /\ BarRelease
            /\ bar_pc' = "shape"
            /\ UNCHANGED <<last_shape, shape_pt, shape_age>>
       ELSE /\ BarShapeClick
            /\ UNCHANGED <<clicking, handover>>
    /\ UNCHANGED <<yellow_gone, shaping, barOther, in_band>>

\* lines 90-103 after the release
BarShape ==
    /\ bar_pc = "shape"
    /\ BarShapeClick
    /\ UNCHANGED <<clicking, yellow_gone, shaping, handover, barOther, in_band>>

\* lines 99-102: after sleep(0.03) the button-up, with the abs_x, abs_y of
\* the button-down
BarShapeUp ==
    /\ bar_pc = "shape_up"
    /\ ev' = <<EvAt("bar", "up", shape_pt)>>
    /\ bar_last' = "up"
    /\ shape_pt' = <<>>
    /\ bar_pc' = "check"
    /\ UNCHANGED <<clicking, yellow_gone, last_shape, shape_age, shaping, handover,
                   barOther, in_band>>

\* lines 105-116: the yellow zone is absent
BarYellowGone(f) ==
    /\ bar_pc = "act"
    /\ ~shaping
    /\ f.ycount < YellowMin
    /\ BarRelease
    /\ IF yellow_gone < 0
       THEN /\ yellow_gone' = 0
            /\ UNCHANGED <<shaping, last_shape>>
       ELSE IF yellow_gone >= YellowGrace
            THEN /\ shaping' = TRUE
                 /\ last_shape' = ShapeGap
                 /\ UNCHANGED yellow_gone
            ELSE UNCHANGED <<yellow_gone, shaping, last_shape>>
    /\ bar_pc' = "check"
    /\ UNCHANGED barFrame

\* |white_cy - yellow_cy| <= deadband
InBand(f) ==
    /\ f.white_cy # NoWhite
    /\ f.white_cy <= YellowCy(f) + Deadband(f)
    /\ f.white_cy >= YellowCy(f) - Deadband(f)

\* BarTrack with the marker compared to the centre itself, no deadband
BarTrack_NoDeadband(f) ==
    /\ bar_pc = "act"
    /\ ~shaping
    /\ f.ycount >= YellowMin
    /\ yellow_gone' = -1
    /\ in_band' = InBand(f)
    /\ IF f.white_cy = NoWhite
       THEN ev' = NoEv /\ UNCHANGED <<clicking, handover, bar_last>>
       ELSE IF f.white_cy > YellowCy(f)
            THEN IF ~clicking
                 THEN /\ ev' = <<Ev("bar", "down")>>
                      /\ clicking' = TRUE
                      /\ bar_last' = "down"
                      /\ UNCHANGED handover
                 ELSE ev' = NoEv /\ UNCHANGED <<clicking, handover, bar_last>>
            ELSE IF f.white_cy < YellowCy(f)
                 THEN BarRelease
                 ELSE ev' = NoEv /\ UNCHANGED <<clicking, handover, bar_last>>
    /\ bar_pc' = "check"
    /\ UNCHANGED <<last_shape, shaping, barRest>>

\* BarTrack with the yellow timer left running
BarTrack_KeepTimer(f) ==
    /\ bar_pc = "act"
    /\ ~shaping
    /\ f.ycount >= YellowMin
    /\ in_band' = InBand(f)
    /\ IF f.white_cy = NoWhite
       THEN ev' = NoEv /\ UNCHANGED <<clicking, handover, bar_last>>
       ELSE IF f.white_cy > YellowCy(f) + Deadband(f)
            THEN IF ~clicking
                 THEN /\ ev' = <<Ev("bar", "down")>>
                      /\ clicking' = TRUE
                      /\ bar_last' = "down"
                      /\ UNCHANGED handover
                 ELSE ev' = NoEv /\ UNCHANGED <<clicking, handover, bar_last>>
            ELSE IF f.white_cy < YellowCy(f) - Deadband(f)
                 THEN BarRelease
                 ELSE ev' = NoEv /\ UNCHANGED <<clicking, handover, bar_last>>
    /\ bar_pc' = "check"
    /\ UNCHANGED <<yellow_gone, last_shape, shaping, barRest>>

\* lines 118-165: the zone is there: hold below the deadband, release above it
BarTrack(f) ==
    /\ bar_pc = "act"
    /\ ~shaping
    /\ f.ycount >= YellowMin
    /\ yellow_gone' = -1
    /\ in_band' = InBand(f)
    /\ IF f.white_cy = NoWhite
       THEN ev' = NoEv /\ UNCHANGED <<clicking, handover, bar_last>>
       ELSE IF f.white_cy > YellowCy(f) + Deadband(f)
            THEN IF ~clicking
                 THEN /\ ev' = <<Ev("bar", "down")>>
                      /\ clicking' = TRUE
                      /\ bar_last' = "down"
                      /\ UNCHANGED handover
                 ELSE ev' = NoEv /\ UNCHANGED <<clicking, handover, bar_last>>
            ELSE IF f.white_cy < YellowCy(f) - Deadband(f)
                 THEN BarRelease
                 ELSE ev' = NoEv /\ UNCHANGED <<clicking, handover, bar_last>>
    /\ bar_pc' = "check"
    /\ UNCHANGED <<last_shape, shaping, barRest>>

BarNext ==
    \/ BarExit
    \/ BarPause
    \/ BarPauseShaping
    \/ BarGrab
    \/ BarShaping
    \/ BarShape
    \/ BarShapeUp
    \/ bar_pc = "act" /\ \E f \in BarFrames : BarYellowGone(f)
    \/ bar_pc = "act" /\ \E f \in BarFrames : BarTrack(f)

------------------------------------------------------------------------------
(* Jiggle loop thread: CursorJiggle._loop (mods/forge/cursor_jiggle.py) *)

jigFrame == <<hubVars, modVars, goVars, usrVars, barVars, ringVars, acVars, hkVars,
              left_key, handover, scope, by_hand, extVars, call>>

JigExit ==
    /\ jig_pc = "check"
    /\ ~running
    /\ jig_pc' = "exit"
    /\ ev' = NoEv
    /\ UNCHANGED <<going_up, jig_i, jigFrame>>

\* lines 34-37
JigPause ==
    /\ jig_pc = "check"
    /\ running
    /\ ~jiggle_active \/ ~focused
    /\ going_up' = TRUE
    /\ ev' = NoEv
    /\ UNCHANGED <<jig_pc, jig_i, jigFrame>>

\* lines 39-55: read the cursor, fix the sweep's target
JigBegin ==
    /\ jig_pc = "check"
    /\ running
    /\ jiggle_active /\ focused
    /\ jig_pc' = "sweep"
    /\ jig_i' = 0
    /\ ev' = NoEv
    /\ UNCHANGED <<going_up, jigFrame>>

\* lines 56-64: one iteration of the for: break when deactivated, else one
\* relative move and a sleep; after the last one going_up flips
JigStep ==
    /\ jig_pc = "sweep"
    /\ IF ~jiggle_active
       THEN /\ ev' = NoEv
            /\ going_up' = ~going_up
            /\ jig_i' = 0
            /\ jig_pc' = "check"
       ELSE /\ ev' = <<Ev("jiggle", "move")>>
            /\ IF jig_i + 1 = JiggleSteps
               THEN /\ going_up' = ~going_up
                    /\ jig_i' = 0
                    /\ jig_pc' = "check"
               ELSE /\ jig_i' = jig_i + 1
                    /\ UNCHANGED <<going_up, jig_pc>>
    /\ UNCHANGED jigFrame

JigNext ==
    \/ JigExit
    \/ JigPause
    \/ JigBegin
    \/ JigStep

------------------------------------------------------------------------------
(* Autoclicker thread: AutoclickerComponent._loop (components/autoclicker.py) *)

acFrame == <<hubVars, modVars, goVars, usrVars, barVars, ringVars, jigVars, hkVars,
             left_key, handover, scope, by_hand, extVars, call>>

AcExit ==
    /\ ac_pc = "check"
    /\ ~running
    /\ ac_pc' = "exit"
    /\ ev' = NoEv
    /\ UNCHANGED acFrame

\* lines 16 and 18-24: _paused is False; nothing under src/ sets the paused
\* property
Paused == FALSE

\* lines 40-43: the test of _active, is_focused() and _paused; past it,
\* get_abs_coords()
AcCheck ==
    /\ ac_pc = "check"
    /\ running
    /\ ac_pc' = IF ac_active /\ focused /\ ~Paused THEN "press" ELSE "check"
    /\ ev' = NoEv
    /\ UNCHANGED acFrame

\* line 44
AcDown ==
    /\ ac_pc = "press"
    /\ ev' = <<Ev("auto", "down")>>
    /\ ac_pc' = "release"
    /\ UNCHANGED acFrame

\* lines 45-47
AcUp ==
    /\ ac_pc = "release"
    /\ ev' = <<Ev("auto", "up")>>
    /\ ac_pc' = "check"
    /\ UNCHANGED acFrame

AcNext ==
    \/ AcExit
    \/ AcCheck
    \/ AcDown
    \/ AcUp

------------------------------------------------------------------------------
(* Hold-key thread: HoldKeyComponent._loop (components/hold_key.py) *)

hkFrame == <<hubVars, modVars, goVars, usrVars, barVars, ringVars, jigVars, acVars,
             handover, scope, by_hand, extVars, call>>

HkExit ==
    /\ hk_pc = "check"
    /\ ~running
    /\ hk_pc' = "exit"
    /\ ev' = NoEv
    /\ UNCHANGED <<was_holding, left_key, hkFrame>>

\* line 36: active and focused: go on to the key-down
HkCheck ==
    /\ hk_pc = "check"
    /\ running
    /\ hold_active /\ focused
    /\ hk_pc' = "press"
    /\ ev' = NoEv
    /\ UNCHANGED <<was_holding, left_key, hkFrame>>

\* lines 37-40
HkPress ==
    /\ hk_pc = "press"
    /\ ev' = <<Ev("hold", "keydown")>>
    /\ was_holding' = TRUE
    /\ left_key' = TRUE
    /\ hk_pc' = "check"
    /\ UNCHANGED hkFrame

\* lines 41-46
HkIdle ==
    /\ hk_pc = "check"
    /\ running
    /\ ~(hold_active /\ focused)
    /\ IF was_holding
       THEN /\ ev' = <<Ev("hold", "keyup")>>
            /\ was_holding' = FALSE
            /\ left_key' = FALSE
       ELSE /\ ev' = NoEv
            /\ UNCHANGED <<was_holding, left_key>>
    /\ UNCHANGED <<hk_pc, hkFrame>>

HkNext ==
    \/ HkExit
    \/ HkCheck
    \/ HkPress
    \/ HkIdle

------------------------------------------------------------------------------
(* CircleDetector._loop (mods/forge/circle_detect.py), one tick in steps:   *)
(* the test of active and focus, the grab, the branch of the state machine  *)
(* with the overlay update, and the button-up that ends inp.click.          *)

ringFrame == <<hubVars, modVars, goVars, usrVars, barVars, jigVars, acVars, hkVars,
               left_key, handover, scope, by_hand, extVars, call>>

\* line 84: inv_scale = 1.0 / scan_scale
InvScale == 2

\* ring_clicks counts up to here
ClickCap == 2

\* What _find_targets returns for one colour: (cx, cy, area) in the coordinates
\* of the half-size frame.  The second candidate is 150 px from the first on
\* the screen, the third 148.8 px.
Candidates ==
    { [cx |-> 100, cy |-> 100, area |-> 50],
      [cx |-> 145, cy |-> 160, area |-> 60],
      [cx |-> 144, cy |-> 160, area |-> 60] }

\* ScreenPos with the monitor's origin left out
ScreenPos_NoOrigin(c) == <<c.cx * InvScale, c.cy * InvScale>>

\* lines 119-120 and 130-131: int(x * inv_scale) + mon["left"], and so for y
ScreenPos(c) == <<c.cx * InvScale + MonLeft, c.cy * InvScale + MonTop>>

\* lines 117-118: the first of the candidates sorted by area, largest first
Largest(ws) == { w \in ws : \A v \in ws : v.area <= w.area }

\* Near with dist <= 150
Near_Inclusive(g, t) ==
    LET r == ScreenPos(g)
    IN  (r[1] - t[1]) * (r[1] - t[1]) + (r[2] - t[2]) * (r[2] - t[2])
          <= NearRadius * NearRadius

\* lines 132-133: dist < 150
Near(g, t) ==
    LET r == ScreenPos(g)
    IN  (r[1] - t[1]) * (r[1] - t[1]) + (r[2] - t[2]) * (r[2] - t[2])
          < NearRadius * NearRadius

\* line 149: time.time() - green_seen_at >= green_delay, green_delay of line 106
GreenDue == green_age * RefHeight >= GreenBase * mon_h

\* lines 160-177: the overlay is shown in TRACK and READY and hidden otherwise
RingOverlay(st) == st \in {"TRACK", "READY"}

RingExit ==
    /\ ring_pc = "check"
    /\ ~running
    /\ ring_pc' = "exit"
    /\ ev' = NoEv
    /\ UNCHANGED <<state, lost_frames, track, ring_shown, green_age, cd_left,
                   ring_clicks, ring_paused, ringFrame>>

\* RingPause with the reset of the state left out
RingPause_KeepState ==
    /\ ring_pc = "check"
    /\ running
    /\ ~circle_active \/ ~focused
    /\ ring_shown' = FALSE
    /\ ring_paused' = TRUE
    /\ ev' = NoEv
    /\ UNCHANGED <<ring_pc, state, green_age, cd_left, lost_frames, track, ring_clicks,
                   ringFrame>>

\* lines 98-104
RingPause ==
    /\ ring_pc = "check"
    /\ running
    /\ ~circle_active \/ ~focused
    /\ state' = "SCAN"
    /\ ring_shown' = FALSE
    /\ green_age' = GreenMax
    /\ cd_left' = 0
    /\ ring_paused' = TRUE
    /\ ev' = NoEv
    /\ UNCHANGED <<ring_pc, lost_frames, track, ring_clicks, ringFrame>>

\* lines 106-112
RingGrab ==
    /\ ring_pc = "check"
    /\ running
    /\ circle_active /\ focused
    /\ ring_pc' = "act"
    /\ ev' = NoEv
    /\ UNCHANGED <<state, lost_frames, track, ring_shown, green_age, cd_left,
                   ring_clicks, ring_paused, ringFrame>>

\* lines 114-124; move_to sends nothing when the cursor is within 2 px
RingScan(whites) ==
    /\ ring_pc = "act"
    /\ state = "SCAN"
    /\ IF whites # {}
       THEN /\ \E w \in Largest(whites) : track' = ScreenPos(w)
            /\ ev' \in {<<Ev("ring", "move")>>, NoEv}
            /\ state' = "TRACK"
            /\ lost_frames' = 0
       ELSE /\ ev' = NoEv
            /\ UNCHANGED <<state, lost_frames, track>>
    /\ ring_shown' = RingOverlay(state')
    /\ ring_paused' = FALSE
    /\ ring_pc' = "check"
    /\ UNCHANGED <<green_age, cd_left, ring_clicks, ringFrame>>

\* RingTrack with lost_frames >= 15 for lost_frames > 15
RingTrack_OffByOne(greens, whites) ==
    /\ ring_pc = "act"
    /\ state = "TRACK"
    /\ IF \E g \in greens : Near(g, track)
       THEN /\ green_age' = 0
            /\ state' = "READY"
            /\ ring_clicks' = 0
            /\ UNCHANGED lost_frames
       ELSE /\ IF whites # {}
               THEN /\ lost_frames' = 0
                    /\ UNCHANGED state
               ELSE /\ lost_frames' = lost_frames + 1
                    /\ state' = IF lost_frames + 1 >= LostLimit THEN "SCAN" ELSE state
            /\ UNCHANGED <<green_age, ring_clicks>>
    /\ ring_shown' = RingOverlay(state')
    /\ ring_paused' = FALSE
    /\ ring_pc' = "check"
    /\ ev' = NoEv
    /\ UNCHANGED <<track, cd_left, ringFrame>>

\* lines 126-146
RingTrack(greens, whites) ==
    /\ ring_pc = "act"
    /\ state = "TRACK"
    /\ IF \E g \in greens : Near(g, track)
       THEN /\ green_age' = 0
            /\ state' = "READY"
            /\ ring_clicks' = 0
            /\ UNCHANGED lost_frames
       ELSE /\ IF whites # {}
               THEN /\ lost_frames' = 0
                    /\ UNCHANGED state
               ELSE /\ lost_frames' = lost_frames + 1
                    /\ state' = IF lost_frames + 1 > LostLimit THEN "SCAN" ELSE state
            /\ UNCHANGED <<green_age, ring_clicks>>
    /\ ring_shown' = RingOverlay(state')
    /\ ring_paused' = FALSE
    /\ ring_pc' = "check"
    /\ ev' = NoEv
    /\ UNCHANGED <<track, cd_left, ringFrame>>

\* RingReady that looks for the green again and falls back to TRACK without it
RingReady_Redetect ==
    /\ ring_pc = "act"
    /\ state = "READY"
    /\ \E greens \in SUBSET Candidates :
         IF ~\E g \in greens : Near(g, track)
         THEN /\ ev' = NoEv
              /\ state' = "TRACK"
              /\ ring_shown' = TRUE
              /\ ring_paused' = FALSE
              /\ ring_pc' = "check"
              /\ UNCHANGED ring_clicks
         ELSE IF GreenDue
         THEN /\ ev' = <<Ev("ring", "down")>>
              /\ ring_clicks' = Min(ring_clicks + 1, ClickCap)
              /\ ring_pc' = "click_up"
              /\ UNCHANGED <<state, ring_shown, ring_paused>>
         ELSE /\ ev' = NoEv
              /\ ring_shown' = TRUE
              /\ ring_paused' = FALSE
              /\ ring_pc' = "check"
              /\ UNCHANGED <<state, ring_clicks>>
    /\ UNCHANGED <<lost_frames, track, green_age, cd_left, ringFrame>>

\* RingReady with the wait for green_delay left out
RingReady_NoDelay ==
    /\ ring_pc = "act"
    /\ state = "READY"
    /\ ev' = <<Ev("ring", "down")>>
    /\ ring_clicks' = Min(ring_clicks + 1, ClickCap)
    /\ ring_pc' = "click_up"
    /\ UNCHANGED <<ring_shown, ring_paused>>
    /\ UNCHANGED <<state, lost_frames, track, green_age, cd_left, ringFrame>>

\* lines 148-150: in READY the click starts once green_delay has passed
\* (input.py line 162: the button-down of inp.click)
RingReady ==
    /\ ring_pc = "act"
    /\ state = "READY"
    /\ IF GreenDue
       THEN /\ ev' = <<Ev("ring", "down")>>
            /\ ring_clicks' = Min(ring_clicks + 1, ClickCap)
            /\ ring_pc' = "click_up"
            /\ UNCHANGED <<ring_shown, ring_paused>>
       ELSE /\ ev' = NoEv
            /\ ring_shown' = TRUE
            /\ ring_paused' = FALSE
            /\ ring_pc' = "check"
            /\ UNCHANGED ring_clicks
    /\ UNCHANGED <<state, lost_frames, track, green_age, cd_left, ringFrame>>

\* input.py lines 163-164 and lines 151-154, 175-177: the button-up 0.03 s
\* later, then COOLDOWN for 0.4 s and the overlay hidden
RingClickUp ==
    /\ ring_pc = "click_up"
    /\ ev' = <<Ev("ring", "up")>>
    /\ state' = "COOLDOWN"
    /\ cd_left' = RingCooldown
    /\ green_age' = GreenMax
    /\ ring_shown' = FALSE
    /\ ring_paused' = FALSE
    /\ ring_pc' = "check"
    /\ UNCHANGED <<lost_frames, track, ring_clicks, ringFrame>>

\* RingCooldownTick that locks onto a ring as soon as the cooldown is over
RingCooldownTick_Relock ==
    /\ ring_pc = "act"
    /\ state = "COOLDOWN"
    /\ state' = IF cd_left = 0 THEN "TRACK" ELSE state
    /\ ring_shown' = RingOverlay(state')
    /\ ring_paused' = FALSE
    /\ ring_pc' = "check"
    /\ ev' = NoEv
    /\ UNCHANGED <<lost_frames, track, green_age, cd_left, ring_clicks, ringFrame>>

\* lines 156-158
RingCooldownTick ==
    /\ ring_pc = "act"
    /\ state = "COOLDOWN"
    /\ state' = IF cd_left = 0 THEN "SCAN" ELSE state
    /\ ring_shown' = FALSE
    /\ ring_paused' = FALSE
    /\ ring_pc' = "check"
    /\ ev' = NoEv
    /\ UNCHANGED <<lost_frames, track, green_age, cd_left, ring_clicks, ringFrame>>

RingAct ==
    \/ /\ ring_pc = "act" /\ state = "SCAN"
       /\ \E whites \in SUBSET Candidates : RingScan(whites)
    \/ /\ ring_pc = "act" /\ state = "TRACK"
       /\ \E greens \in SUBSET Candidates, whites \in SUBSET Candidates :
            RingTrack(greens, whites)
    \/ RingReady
    \/ RingCooldownTick

RingNext ==
    \/ RingExit
    \/ RingPause
    \/ RingGrab
    \/ RingAct
    \/ RingClickUp

------------------------------------------------------------------------------
(* A capture that raises.  Neither _loop has a try around its body, so the   *)
(* exception leaves the thread's target function and the thread ends as it *)
(* is, with what it holds.                                                  *)

\* bar_game.py line 75: sct.grab(crop_region) raises
BarGrabRaises ==
    /\ bar_pc = "check"
    /\ running
    /\ bar_active /\ focused
    /\ bar_pc' = "raised"
    /\ ev' = NoEv
    /\ UNCHANGED <<clicking, yellow_gone, last_shape, shaping, handover, bar_last, barFrame>>

\* circle_detect.py line 108: sct.grab(mon) raises
RingGrabRaises ==
    /\ ring_pc = "check"
    /\ running
    /\ circle_active /\ focused
    /\ ring_pc' = "raised"
    /\ ev' = NoEv
    /\ UNCHANGED <<state, lost_frames, track, ring_shown, green_age, cd_left,
                   ring_clicks, ring_paused, ringFrame>>

------------------------------------------------------------------------------
(* Functions of core/focus.py and core/input.py.  A text is the sequence of *)
(* its characters.                                                          *)

restVars == <<hubVars, modVars, goVars, usrVars, barVars, ringVars, jigVars, acVars,
              hkVars, left_key, ev, handover, scope, by_hand, extVars>>

UpperLetters ==
    <<"A", "B", "C", "D", "E", "F", "G", "H", "I", "J", "K", "L", "M", "N", "O", "P",
      "Q", "R", "S", "T", "U", "V", "W", "X", "Y", "Z">>

LowerLetters ==
    <<"a", "b", "c", "d", "e", "f", "g", "h", "i", "j", "k", "l", "m", "n", "o", "p",
      "q", "r", "s", "t", "u", "v", "w", "x", "y", "z">>

\* str.lower() on one character
LowerChar(c) ==
    IF \E i \in 1..Len(UpperLetters) : UpperLetters[i] = c
    THEN LowerLetters[CHOOSE i \in 1..Len(UpperLetters) : UpperLetters[i] = c]
    ELSE c

\* str.lower()
LowerText(t) == [i \in 1..Len(t) |-> LowerChar(t[i])]

\* t.rsplit('\\', 1)[-1]: what follows the last backslash, t itself without one
LastPart(t) ==
    LET slashes == { i \in 1..Len(t) : t[i] = "\\" }
    IN  IF slashes = {} THEN t
        ELSE SubSeq(t, (CHOOSE i \in slashes : \A j \in slashes : j <= i) + 1, Len(t))

\* focus.py line 36: 'robloxplayerbeta.exe'
TargetExe ==
    <<"r", "o", "b", "l", "o", "x", "p", "l", "a", "y", "e", "r", "b", "e", "t", "a",
      ".", "e", "x", "e">>

\* image paths QueryFullProcessImageNameW may report
ImagePaths ==
    { <<"C", ":", "\\", "R", "o", "b", "l", "o", "x", "\\", "R", "o", "b", "l", "o",
        "x", "P", "l", "a", "y", "e", "r", "B", "e", "t", "a", ".", "e", "x", "e">>,
      <<"r", "o", "b", "l", "o", "x", "p", "l", "a", "y", "e", "r", "b", "e", "t", "a",
        ".", "e", "x", "e">>,
      <<"C", ":", "\\", "R", "O", "B", "L", "O", "X", "P", "L", "A", "Y", "E", "R",
        "B", "E", "T", "A", ".", "E", "X", "E">>,
      <<"C", ":", "\\", "R", "o", "b", "l", "o", "x", "P", "l", "a", "y", "e", "r",
        "B", "e", "t", "a", ".", "e", "x", "e", "\\", "n", "o", "t", "e", "p", "a",
        "d", ".", "e", "x", "e">>,
      <<"C", ":", "\\", "N", "o", "t", "R", "o", "b", "l", "o", "x", "P", "l", "a",
        "y", "e", "r", "B", "e", "t", "a", ".", "e", "x", "e">>,
      <<>> }

\* How the OS calls of one is_focused() go: each returns a value, returns its
\* failure value (NULL, 0) or raises; CloseHandle is given the handle just
\* opened.
OsOutcomes ==
    [fg : {"ok", "null", "raise"},
     tid : {"ok", "fail", "raise"},
     open : {"ok", "null", "raise"},
     query : {"ok", "fail", "raise"},
     close : {"ok", "raise"},
     path : ImagePaths]

\* lines 22-36, the body of the try: "raised" when a call raises.  Without a
\* window GetWindowThreadProcessId leaves pid at 0, OpenProcess(0) returns
\* NULL, and a failed query leaves the buffer empty.
IsFocusedBody(os) ==
    IF os.fg = "raise" \/ os.tid = "raise" \/ os.open = "raise" THEN "raised"
    ELSE IF os.fg = "null" \/ os.tid = "fail" \/ os.open = "null" THEN "False"
    ELSE IF os.query = "raise" \/ os.close = "raise" THEN "raised"
    ELSE IF LastPart(LowerText(IF os.query = "ok" THEN os.path ELSE <<>>)) = TargetExe
         THEN "True"
         ELSE "False"

\* is_focused without the except clause
IsFocused_NoCatch(os) == IsFocusedBody(os)

\* lines 19-38: except Exception: return False
IsFocused(os) == IF IsFocusedBody(os) = "raised" THEN "False" ELSE IsFocusedBody(os)

\* The functions keep no state between calls: a behaviour makes one call.
IsFocusedCall ==
    /\ call = NoCall
    /\ \E os \in OsOutcomes :
         call' = [fn |-> "is_focused", arg |-> os, out |-> IsFocused(os)]
    /\ UNCHANGED restVars

\* input.py lines 91-98: the top of the absolute coordinate range
AbsMax == 65535

\* int(p / q) for q # 0: the quotient, truncated toward zero (the operands stay
\* far below 2^53, where the float quotient truncates as the exact one does)
TruncDiv(p, q) ==
    LET ap == IF p < 0 THEN -p ELSE p
        aq == IF q < 0 THEN -q ELSE q
    IN  IF (p < 0) = (q < 0) THEN ap \div aq ELSE -(ap \div aq)

\* int((v - origin) * 65535 / (extent - 1)), lines 91, 92, 97 and 98
ToAbs(v, origin, extent) == TruncDiv((v - origin) * AbsMax, extent - 1)

\* GetSystemMetrics(76..79), lines 82-85: origin and extent of the virtual
\* screen; an extent is 0 when the call fails
VirtWidths == {0, 1, 2, 3, 1920, 32768}
VirtHeights == {0, 1, 2, 1080}
Metrics == [left : {-1920, 0}, top : {-1080, 0}, w : VirtWidths, h : VirtHeights]

\* pixel offsets from the origin: both ends of an extent of n pixels and some
\* between
Offsets(n) == { d \in {0, 1, n \div 3, n \div 2, n - 2, n - 1} : d >= 0 }

\* 32767 in place of 65535
ScreenToAbs_HalfRange(x, y, m) ==
    IF m.w - 1 = 0 \/ m.h - 1 = 0
    THEN [err |-> "ZeroDivisionError", val |-> <<>>]
    ELSE [err |-> "none",
          val |-> <<TruncDiv((x - m.left) * 32767, m.w - 1),
                    TruncDiv((y - m.top) * 32767, m.h - 1)>>]

\* lines 95-99: the divisor is extent - 1 as it is
ScreenToAbs(x, y, m) ==
    IF m.w - 1 = 0 \/ m.h - 1 = 0
    THEN [err |-> "ZeroDivisionError", val |-> <<>>]
    ELSE [err |-> "none",
          val |-> <<ToAbs(x, m.left, m.w), ToAbs(y, m.top, m.h)>>]

\* lines 87-93, pt being what GetCursorPos stored
GetAbsCoords(pt, m) ==
    IF m.w - 1 = 0 \/ m.h - 1 = 0
    THEN [err |-> "ZeroDivisionError", val |-> <<>>]
    ELSE [err |-> "none",
          val |-> <<ToAbs(pt[1], m.left, m.w), ToAbs(pt[2], m.top, m.h), pt[1], pt[2]>>]

ScreenToAbsCall ==
    /\ call = NoCall
    /\ \E m \in Metrics : \E dx \in Offsets(m.w) : \E dy \in Offsets(m.h) :
         call' = [fn |-> "screen_to_abs", m |-> m,
                  arg |-> <<m.left + dx, m.top + dy>>,
                  out |-> ScreenToAbs(m.left + dx, m.top + dy, m)]
    /\ UNCHANGED restVars

GetAbsCoordsCall ==
    /\ call = NoCall
    /\ \E m \in Metrics : \E dx \in Offsets(m.w) : \E dy \in Offsets(m.h) :
         call' = [fn |-> "get_abs_coords", m |-> m,
                  arg |-> <<m.left + dx, m.top + dy>>,
                  out |-> GetAbsCoords(<<m.left + dx, m.top + dy>>, m)]
    /\ UNCHANGED restVars

\* lines 101-112: one mouse event with its flags and coordinates; without
\* coordinates given (abs_x is None) they are those of the cursor, cur, now
SendMouse(flags, abs, cur, m) ==
    IF abs = <<>>
    THEN IF GetAbsCoords(cur, m).err # "none"
         THEN [err |-> GetAbsCoords(cur, m).err, sent |-> <<>>]
         ELSE [err |-> "none",
               sent |-> <<[flags |-> flags,
                           abs |-> SubSeq(GetAbsCoords(cur, m).val, 1, 2)]>>]
    ELSE [err |-> "none", sent |-> <<[flags |-> flags, abs |-> abs]>>]

\* 0x8000 | 0x4000 | 0x0002 and 0x8000 | 0x4000 | 0x0004: absolute, virtual
\* desktop, left button down / up; neither has the move bit 0x0001
LeftDown == {"ABSOLUTE", "VIRTUALDESK", "LEFTDOWN"}
LeftUp == {"ABSOLUTE", "VIRTUALDESK", "LEFTUP"}

\* lines 159-166: pt is the cursor at line 161, later the cursor after the
\* sleep of line 163; x and y are not read
Click(x, y, pt, later, m) ==
    IF GetAbsCoords(pt, m).err # "none"
    THEN [err |-> GetAbsCoords(pt, m).err, sent |-> <<>>, val |-> <<>>]
    ELSE [err |-> "none",
          sent |-> SendMouse(LeftDown, SubSeq(GetAbsCoords(pt, m).val, 1, 2), pt, m).sent
                   \o SendMouse(LeftUp, SubSeq(GetAbsCoords(pt, m).val, 1, 2), later, m).sent,
          val |-> pt]

\* where click is asked to click
ClickArgs == {<<0, 0>>, <<960, 540>>}

ClickCall ==
    /\ call = NoCall
    /\ \E m \in Metrics : \E dx \in Offsets(m.w) : \E dy \in Offsets(m.h) :
       \E drift \in {0, 1} : \E xy \in ClickArgs :
         call' = [fn |-> "click", m |-> m, arg |-> xy,
                  pt |-> <<m.left + dx, m.top + dy>>,
                  out |-> Click(xy[1], xy[2], <<m.left + dx, m.top + dy>>,
                                <<m.left + dx + drift, m.top + dy>>, m)]
    /\ UNCHANGED restVars

\* MoveTo with the same int(total / steps) on every step
MoveTo_EvenSteps(target, pt, steps) ==
    IF (target[1] - pt[1]) \in -1..1 /\ (target[2] - pt[2]) \in -1..1
    THEN <<>>
    ELSE [i \in 1..steps |->
            <<TruncDiv(target[1] - pt[1], steps), TruncDiv(target[2] - pt[2], steps)>>]

\* lines 141-157: the relative moves sent, pt being the cursor at line 144
MoveTo(target, pt, steps) ==
    IF (target[1] - pt[1]) \in -1..1 /\ (target[2] - pt[2]) \in -1..1
    THEN <<>>
    ELSE [i \in 1..steps |->
            <<TruncDiv((target[1] - pt[1]) * i, steps)
                - TruncDiv((target[1] - pt[1]) * (i - 1), steps),
              TruncDiv((target[2] - pt[2]) * i, steps)
                - TruncDiv((target[2] - pt[2]) * (i - 1), steps)>>]

\* displacements on one axis and step counts; 20 is the default of line 141
Displacements == {-1000, -21, -3, -2, -1, 0, 1, 2, 7, 19, 20, 1001}
StepCounts == {1, 2, 3, 7, 20}

MoveToCall ==
    /\ call = NoCall
    /\ \E dx \in Displacements, dy \in Displacements, steps \in StepCounts :
       \E pt \in {<<0, 0>>, <<-300, 650>>} :
         call' = [fn |-> "move_to", arg |-> <<pt[1] + dx, pt[2] + dy>>, pt |-> pt,
                  steps |-> steps,
                  out |-> MoveTo(<<pt[1] + dx, pt[2] + dy>>, pt, steps)]
    /\ UNCHANGED restVars

------------------------------------------------------------------------------
(* CircleDetector._find_targets.  What cv2 extracts from the buffer for the  *)
(* colour range comes in as the contours, each with its measures: area        *)
(* (contourArea), w and h (boundingRect), r10, cx10 and cy10 (radius and      *)
(* centre of minEnclosingCircle, in tenths of a pixel).                       *)

\* line 20: self.min_area
MinArea == 40

\* lines 45-46: int(w_frame * 0.20), int(h_frame * 0.10)
MarginX(frame) == (frame[1] * 20) \div 100
MarginY(frame) == (frame[2] * 10) \div 100

\* Passes with the test of the radius left out
Passes_NoRadius(c, frame, min_area) ==
    /\ ~(c.area < min_area)
    /\ ~(c.w = 0 \/ c.h = 0)
    /\ ~(Max(c.w, c.h) > 2 * Min(c.w, c.h))
    /\ ~(56500 * c.area < 355 * c.r10 * c.r10)
    /\ ~(c.cx10 < MarginX(frame) * 10 \/ c.cx10 > (frame[1] - MarginX(frame)) * 10)
    /\ ~(c.cy10 < MarginY(frame) * 10 \/ c.cy10 > (frame[2] - MarginY(frame)) * 10)

\* lines 57-76: the contour gets past every continue.  fill < 0.20 is
\* 500 * area < pi * r10^2, computed with 355/113 for pi, which decides every
\* contour of Contours as pi does
Passes(c, frame, min_area) ==
    /\ ~(c.area < min_area)
    /\ ~(c.w = 0 \/ c.h = 0)
    /\ ~(Max(c.w, c.h) > 2 * Min(c.w, c.h))
    /\ ~(c.r10 < 50)
    /\ ~(56500 * c.area < 355 * c.r10 * c.r10)
    /\ ~(c.cx10 < MarginX(frame) * 10 \/ c.cx10 > (frame[1] - MarginX(frame)) * 10)
    /\ ~(c.cy10 < MarginY(frame) * 10 \/ c.cy10 > (frame[2] - MarginY(frame)) * 10)

\* line 77: (int(cx), int(cy), area)
TargetOf(c) == <<c.cx10 \div 10, c.cy10 \div 10, c.area>>

\* lines 55-79: the targets of the contours that pass, in the contours' order
FindTargets(cs, frame, min_area) ==
    LET Keep(c) == Passes(c, frame, min_area)
        kept == SelectSeq(cs, Keep)
    IN  [i \in 1..Len(kept) |-> TargetOf(kept[i])]

\* the half-size frames of the two monitors
Frames == {<<960, 540>>, <<1920, 1080>>}

\* contours with measures on both sides of every test; among them a 1x50
\* rectangle and a plus shape filling 15% of its circle (area 188, r 20)
Contours(frame) ==
    [area : {0, 39, 40, 49, 62, 63, 188, 400},
     w : {1, 8, 10},
     h : {8, 20, 21, 50},
     r10 : {49, 50, 100, 200},
     cx10 : {MarginX(frame) * 10 - 1, MarginX(frame) * 10, frame[1] * 5,
             (frame[1] - MarginX(frame)) * 10, (frame[1] - MarginX(frame)) * 10 + 1},
     cy10 : {MarginY(frame) * 10 - 1, MarginY(frame) * 10,
             (frame[2] - MarginY(frame)) * 10, (frame[2] - MarginY(frame)) * 10 + 1}]

\* a ring, a small disc, a speck
Ring == [area |-> 400, w |-> 40, h |-> 40, r10 |-> 200, cx10 |-> 4805, cy10 |-> 2707]
Disc == [area |-> 63, w |-> 10, h |-> 10, r10 |-> 100, cx10 |-> 3000, cy10 |-> 1000]
Speck == [area |-> 39, w |-> 8, h |-> 8, r10 |-> 50, cx10 |-> 5000, cy10 |-> 3000]

\* buffers with none to two of them
FewContours ==
    { [frame |-> <<960, 540>>, cs |-> cs] :
        cs \in {<<>>, <<Ring>>, <<Disc>>, <<Speck>>, <<Ring, Disc>>, <<Disc, Ring>>} }

\* the calls made so far, the last one last
PastCalls ==
    IF call = NoCall THEN <<>> ELSE Append(call.past, [arg |-> call.arg, out |-> call.out])

\* FindTargetsOn with the area threshold raised to the largest area the call
\* before returned
FindTargetsOn_Adaptive(hsv, limit) ==
    /\ call.fn \in {"none", "find_targets"}
    /\ Len(PastCalls) < limit
    /\ call' = [fn |-> "find_targets", arg |-> hsv, past |-> PastCalls,
                out |-> FindTargets(hsv.cs, hsv.frame,
                          IF PastCalls # <<>> /\ call.out # <<>>
                          THEN call.out[1][3] ELSE MinArea)]
    /\ UNCHANGED restVars

\* lines 42-79: a call on the buffer hsv, one of at most limit calls; it reads
\* self.min_area and self.kernel and assigns to no field
FindTargetsOn(hsv, limit) ==
    /\ call.fn \in {"none", "find_targets"}
    /\ Len(PastCalls) < limit
    /\ call' = [fn |-> "find_targets", arg |-> hsv, past |-> PastCalls,
                out |-> FindTargets(hsv.cs, hsv.frame, MinArea)]
    /\ UNCHANGED restVars

\* one call on a buffer with one contour
FindTargetsCall ==
    /\ call = NoCall
    /\ \E f \in Frames : \E c \in Contours(f) :
         FindTargetsOn([frame |-> f, cs |-> <<c>>], 1)

\* up to three calls one after another
FindTargetsRepeat == \E hsv \in FewContours : FindTargetsOn(hsv, 3)

NextDetect == FindTargetsRepeat

SpecDetect == Init /\ [][NextDetect]_vars

NextCalls ==
    \/ IsFocusedCall
    \/ ScreenToAbsCall
    \/ GetAbsCoordsCall
    \/ ClickCall
    \/ MoveToCall
    \/ FindTargetsCall

SpecCalls == Init /\ [][NextCalls]_vars

------------------------------------------------------------------------------
(* start() of a loop component, statement by statement, as the threads that  *)
(* run handlers call it: CursorJiggle.start (cursor_jiggle.py 17-21),        *)
(* BarGame.start (bar_game.py 21-25), CircleDetector.start (circle_detect.py *)
(* 33-37).  The three are the same four lines; neither they nor their        *)
(* callers take a lock.                                                      *)

\* Thread objects created, over all components, before further calls are left
\* out
StartCap == 2

\* the number of Thread objects created so far
ThreadsMade == Len(thread_st["jiggle"]) + Len(thread_st["bar"]) + Len(thread_st["circle"])

startFrame == <<hubVars, forge_enabled, auto_phase, phase_idx, shaping, ac_active,
                hold_active, goVars, usrVars, barVars, ringVars, jigVars, acVars, hkVars,
                left_key, handover, scope, by_hand, call, hotkeys_enabled, key_dropped,
                sprint_active, sell_active, executing, sell_pc>>

activeFlags == <<jiggle_active, bar_active, circle_active>>

\* the number of threads of component c running _loop
AliveThreads(c) == Cardinality({i \in 1..Len(thread_st[c]) : thread_st[c][i] = "alive"})

\* self._thread and self._thread.is_alive()
RefAlive(c) == thread_ref[c] # 0 /\ thread_st[c][thread_ref[c]] = "alive"

\* self.active = True, the first line of start()
StartBegin(t, c) ==
    /\ running /\ forge_enabled
    /\ start_pc[t].pc = "idle"
    /\ ThreadsMade < StartCap
    /\ jiggle_active' = (jiggle_active \/ c = "jiggle")
    /\ bar_active' = (bar_active \/ c = "bar")
    /\ circle_active' = (circle_active \/ c = "circle")
    /\ start_pc' = [start_pc EXCEPT ![t] = [pc |-> "test", of |-> c]]
    /\ ev' = NoEv
    /\ UNCHANGED <<thread_ref, thread_st, startFrame>>

\* if not self._thread or not self._thread.is_alive():
StartTest(t) ==
    /\ start_pc[t].pc = "test"
    /\ start_pc' = [start_pc EXCEPT ![t] =
                      IF RefAlive(start_pc[t].of)
                      THEN [pc |-> "idle", of |-> "none"]
                      ELSE [pc |-> "create", of |-> start_pc[t].of]]
    /\ ev' = NoEv
    /\ UNCHANGED <<thread_ref, thread_st, activeFlags, startFrame>>

\* self._thread = Thread(target=self._loop, daemon=True)
StartCreate(t) ==
    /\ start_pc[t].pc = "create"
    /\ LET c == start_pc[t].of
       IN  /\ thread_st' = [thread_st EXCEPT ![c] = Append(@, "new")]
           /\ thread_ref' = [thread_ref EXCEPT ![c] = Len(thread_st[c]) + 1]
    /\ start_pc' = [start_pc EXCEPT ![t].pc = "run"]
    /\ ev' = NoEv
    /\ UNCHANGED <<activeFlags, startFrame>>

\* self._thread.start(): the field is read again; a Thread started before
\* raises RuntimeError in the caller and starts nothing
StartRun(t) ==
    /\ start_pc[t].pc = "run"
    /\ LET c == start_pc[t].of
       IN  thread_st' = [thread_st EXCEPT ![c][thread_ref[c]] = "alive"]
    /\ start_pc' = [start_pc EXCEPT ![t] = [pc |-> "idle", of |-> "none"]]
    /\ ev' = NoEv
    /\ UNCHANGED <<thread_ref, activeFlags, startFrame>>

\* while self.hub.running: false in a running _loop
ThreadEnd(c) ==
    /\ ~running
    /\ \E i \in 1..Len(thread_st[c]) :
         /\ thread_st[c][i] = "alive"
         /\ thread_st' = [thread_st EXCEPT ![c][i] = "dead"]
    /\ ev' = NoEv
    /\ UNCHANGED <<thread_ref, start_pc, activeFlags, startFrame>>

NextStart ==
    \/ ToggleForge
    \/ Quit
    \/ \E t \in Callers, c \in LoopNames : StartBegin(t, c)
    \/ \E t \in Callers : StartTest(t)
    \/ \E t \in Callers : StartCreate(t)
    \/ \E t \in Callers : StartRun(t)
    \/ \E c \in LoopNames : ThreadEnd(c)

\* the focus and the monitor play no part in start()
InitStart == Init /\ focused /\ mon_h = RefHeight

SpecStart == InitStart /\ [][NextStart]_vars

------------------------------------------------------------------------------
(* Spec: the handlers, run to completion one after another, and the GO watcher *)

Forces == BOOLEAN

UserNext ==
    \/ ToggleForge
    \/ \E idx \in 0..3, force \in Forces : NodeClick(idx, force)
    \/ \E force \in Forces : ToggleAutoPhase(force)
    \/ \E force \in Forces : ToggleAutoclicker(force)
    \/ \E force \in Forces : ToggleHoldLeft(force)

Next ==
    \/ UserNext
    \/ Quit
    \/ FocusChange
    \/ TickSecond
    \/ GoCheck
    \/ GoSample

Spec == Init /\ [][Next]_vars

------------------------------------------------------------------------------
(* SpecKeys: the hotkeys of GameHub._register_mod_hotkeys (core/hub.py) beside *)
(* the handlers called from the GUI and the radial menu                      *)

keyFrame == <<hubVars, modVars, goVars, usrVars, barVars, ringVars, jigVars, acVars,
              hkVars, left_key, handover, scope, by_hand, call>>

\* mods/forge/mod.py lines 805-812
ToggleHotkeys ==
    /\ running
    /\ usr_pc = "idle"
    /\ hotkeys_enabled' = ~hotkeys_enabled
    /\ ev' = NoEv
    /\ UNCHANGED <<key_dropped, sprint_active, sell_active, executing, sell_pc,
                   thread_ref, thread_st, start_pc, keyFrame>>

\* mods/forge/mod.py lines 840-844, Component.toggle (components/base.py) and
\* SprintComponent.start and stop (components/sprint.py lines 20-30): stop()
\* also sends the key-up of the shift key
ToggleSprint(force) ==
    /\ running
    /\ usr_pc = "idle"
    /\ IF ~force /\ ~focused
       THEN UNCHANGED sprint_active /\ ev' = NoEv
       ELSE IF sprint_active
            THEN /\ sprint_active' = FALSE
                 /\ ev' = <<Ev("sprint", "keyup")>>
            ELSE /\ sprint_active' = TRUE
                 /\ ev' = NoEv
    /\ UNCHANGED <<hotkeys_enabled, key_dropped, sell_active, executing, sell_pc,
                   thread_ref, thread_st, start_pc, keyFrame>>

\* mods/forge/mod.py lines 931-942: move_to sends nothing when the cursor is
\* within 2 px of the target; then the click
HandleEnter ==
    /\ running
    /\ usr_pc = "idle"
    /\ IF auto_phase /\ phase_idx = -1 /\ focused
       THEN ev' \in { <<Ev("enter", "move"), Ev("enter", "down"), Ev("enter", "up")>>,
                      <<Ev("enter", "down"), Ev("enter", "up")>> }
       ELSE ev' = NoEv
    /\ UNCHANGED <<extVars, keyFrame>>

\* the names the hotkeys are registered under (core/hub.py lines 76-107)
HotkeyNames ==
    {"circle", "jiggle", "bar_game", "auto_phase", "autoclicker", "hold_left",
     "sprint", "enter_phase"}

\* what each hotkey's callback calls, force being left at its default False
HotkeyCallback(k) ==
    CASE k = "circle" -> NodeClick(3, FALSE)
      [] k = "jiggle" -> NodeClick(0, FALSE)
      [] k = "bar_game" -> NodeClick(1, FALSE)
      [] k = "auto_phase" -> ToggleAutoPhase(FALSE)
      [] k = "autoclicker" -> ToggleAutoclicker(FALSE)
      [] k = "hold_left" -> ToggleHoldLeft(FALSE)
      [] k = "sprint" -> ToggleSprint(FALSE)
      [] k = "enter_phase" -> HandleEnter

\* HotkeyPress without the test of hotkeys.enabled
HotkeyPress_Unguarded(k) ==
    HotkeyCallback(k)

\* core/hub.py lines 68-74: the wrapper of every hotkey's callback; the hooks
\* are removed by _quit (hotkeys.cleanup)
HotkeyPress(k) ==
    IF ~hotkeys_enabled
    THEN /\ running
         /\ usr_pc = "idle"
         /\ key_dropped' = k
         /\ ev' = NoEv
         /\ UNCHANGED <<hotkeys_enabled, sprint_active, sell_active, executing, sell_pc,
                        thread_ref, thread_st, start_pc, keyFrame>>
    ELSE HotkeyCallback(k)

NextKeys ==
    \/ \E k \in HotkeyNames : HotkeyPress(k)
    \/ ToggleHotkeys
    \/ ToggleSprint(TRUE)
    \/ UserNext
    \/ Quit
    \/ FocusChange
    \/ TickSecond
    \/ GoCheck
    \/ GoSample

\* the monitor plays no part in the handlers
InitKeys == Init /\ mon_h = RefHeight

SpecKeys == InitKeys /\ [][NextKeys]_vars

------------------------------------------------------------------------------
(* SpecSell: the auto-sell thread, AutoSellComponent._loop and                *)
(* _execute_sequence (components/auto_sell.py), beside the autoclicker thread *)

sellFrame == <<keyFrame, hotkeys_enabled, key_dropped, sprint_active, thread_ref,
               thread_st, start_pc>>

\* mods/forge/mod.py lines 58-62: the steps of the sequence
NumSellSteps == 5

\* mods/forge/mod.py lines 850-852, Component.toggle and auto_sell.py lines
\* 71-85, with the positions configured: start() sets _active and clears
\* _stop_flag, stop() clears _active and sets _stop_flag
ToggleAutoSell ==
    /\ running
    /\ usr_pc = "idle"
    /\ sell_active' = ~sell_active
    /\ ev' = NoEv
    /\ UNCHANGED <<executing, sell_pc, sellFrame>>

\* auto_sell.py line 250: while self.hub.running
SellExit ==
    /\ sell_pc.at = "check"
    /\ ~running
    /\ sell_pc' = [at |-> "exit", n |-> 0]
    /\ ev' = NoEv
    /\ UNCHANGED <<sell_active, executing, sellFrame>>

\* lines 251-258 and 209-219: active and focused, the sequence starts:
\* _executing = True, then the stash key (camlock is off)
SellCheck ==
    /\ sell_pc.at = "check"
    /\ running
    /\ IF sell_active /\ focused
       THEN /\ executing' = TRUE
            /\ sell_pc' = [at |-> "seq", n |-> 0]
            /\ ev' = <<Ev("sell", "keydown"), Ev("sell", "keyup")>>
       ELSE /\ ev' = NoEv
            /\ UNCHANGED <<executing, sell_pc>>
    /\ UNCHANGED <<sell_active, sellFrame>>

\* lines 220-239: after the wait, which ends the sequence when the component
\* was stopped or the program quit, the next step's click_at_screen; past the
\* last step, and on every return, the finally clause clears _executing
SellStep ==
    /\ sell_pc.at = "seq"
    /\ IF sell_active /\ running /\ sell_pc.n < NumSellSteps
       THEN /\ ev' = <<Ev("sell", "move"), Ev("sell", "down"), Ev("sell", "up")>>
            /\ sell_pc' = [sell_pc EXCEPT !.n = @ + 1]
            /\ UNCHANGED executing
       ELSE /\ ev' = NoEv
            /\ executing' = FALSE
            /\ sell_pc' = [at |-> "wait", n |-> 0]
    /\ UNCHANGED <<sell_active, sellFrame>>

\* lines 260-265: the wait for the interval, cut short by stop() and quit
SellWait ==
    /\ sell_pc.at = "wait"
    /\ sell_pc' = [at |-> "check", n |-> 0]
    /\ ev' = NoEv
    /\ UNCHANGED <<sell_active, executing, sellFrame>>

SellNext ==
    \/ SellExit
    \/ SellCheck
    \/ SellStep
    \/ SellWait

NextSell ==
    \/ ToggleAutoSell
    \/ \E force \in Forces : ToggleAutoclicker(force)
    \/ FocusChange
    \/ Quit
    \/ AcNext
    \/ SellNext

\* the monitor plays no part in the two loops
InitSell == Init /\ mon_h = RefHeight

SpecSell == InitSell /\ [][NextSell]_vars

------------------------------------------------------------------------------
(* SpecRace: _on_node_click on the user thread and _advance_phase on the GO   *)
(* watcher thread, statement by statement.  Neither takes a lock.             *)

otherVars == <<hubVars, barVars, ringVars, jigVars, acVars, hkVars, left_key, scope, by_hand, extVars, call, ev,
              handover>>

\* lines 875-879: the two early returns, then auto_phase = False
UsrBegin(idx, force) ==
    /\ running
    /\ usr_pc = "idle"
    /\ IF ~forge_enabled \/ (~force /\ ~focused)
       THEN UNCHANGED <<auto_phase, usrVars>>
       ELSE /\ auto_phase' = FALSE
            /\ usr_idx' = idx
            /\ usr_pc' = "branch"
    /\ UNCHANGED <<forge_enabled, phase_idx, jiggle_active, bar_active, shaping,
                   circle_active, ac_active, hold_active>>
    /\ UNCHANGED <<goVars, otherVars>>

\* the if of the idx branch: the node is on, so stop() it; else go on to the stops
UsrBranch ==
    /\ usr_pc = "branch"
    /\ CASE usr_idx = 0 ->
            /\ jiggle_active' = FALSE
            /\ usr_pc' = IF jiggle_active THEN "idle" ELSE "stop_a"
            /\ UNCHANGED <<bar_active, shaping, circle_active>>
         [] usr_idx = 1 ->
            /\ bar_active' = IF bar_active /\ ~shaping THEN FALSE ELSE bar_active
            /\ usr_pc' = IF bar_active /\ ~shaping THEN "idle" ELSE "stop_a"
            /\ UNCHANGED <<jiggle_active, shaping, circle_active>>
         [] usr_idx = 2 ->
            /\ bar_active' = IF shaping THEN FALSE ELSE bar_active
            /\ shaping' = FALSE
            /\ usr_pc' = IF shaping THEN "idle" ELSE "stop_a"
            /\ UNCHANGED <<jiggle_active, circle_active>>
         [] usr_idx = 3 ->
            /\ circle_active' = FALSE
            /\ usr_pc' = IF circle_active THEN "idle" ELSE "stop_a"
            /\ UNCHANGED <<jiggle_active, bar_active, shaping>>
    /\ UNCHANGED <<forge_enabled, auto_phase, phase_idx, ac_active, hold_active, usr_idx>>
    /\ UNCHANGED <<goVars, otherVars>>

\* first stop() of the else branch: circle_detector (idx 0, 1, 2), cursor_jiggle (idx 3)
UsrStopA ==
    /\ usr_pc = "stop_a"
    /\ IF usr_idx = 3
       THEN jiggle_active' = FALSE /\ UNCHANGED circle_active
       ELSE circle_active' = FALSE /\ UNCHANGED jiggle_active
    /\ usr_pc' = "stop_b"
    /\ UNCHANGED <<forge_enabled, auto_phase, phase_idx, bar_active, shaping, ac_active,
                   hold_active, usr_idx>>
    /\ UNCHANGED <<goVars, otherVars>>

\* second stop(): bar_game (idx 0, 3), cursor_jiggle (idx 1, 2)
UsrStopB ==
    /\ usr_pc = "stop_b"
    /\ IF usr_idx \in {0, 3}
       THEN bar_active' = FALSE /\ shaping' = FALSE /\ UNCHANGED jiggle_active
       ELSE jiggle_active' = FALSE /\ UNCHANGED <<bar_active, shaping>>
    /\ usr_pc' = "stop_c"
    /\ UNCHANGED <<forge_enabled, auto_phase, phase_idx, circle_active, ac_active,
                   hold_active, usr_idx>>
    /\ UNCHANGED <<goVars, otherVars>>

\* autoclicker.stop()
UsrStopC ==
    /\ usr_pc = "stop_c"
    /\ ac_active' = FALSE
    /\ usr_pc' = IF usr_idx \in {1, 2} THEN "set_shaping" ELSE "start"
    /\ UNCHANGED <<forge_enabled, auto_phase, phase_idx, jiggle_active, bar_active,
                   shaping, circle_active, hold_active, usr_idx>>
    /\ UNCHANGED <<goVars, otherVars>>

\* bar_game.shaping = False (idx 1) / True (idx 2)
UsrSetShaping ==
    /\ usr_pc = "set_shaping"
    /\ shaping' = (usr_idx = 2)
    /\ usr_pc' = "start"
    /\ UNCHANGED <<forge_enabled, auto_phase, phase_idx, jiggle_active, bar_active,
                   circle_active, ac_active, hold_active, usr_idx>>
    /\ UNCHANGED <<goVars, otherVars>>

\* the start() that ends the else branch
UsrStart ==
    /\ usr_pc = "start"
    /\ CASE usr_idx = 0 -> jiggle_active' = TRUE /\ UNCHANGED <<bar_active, circle_active>>
         [] usr_idx \in {1, 2} ->
                bar_active' = TRUE /\ UNCHANGED <<jiggle_active, circle_active>>
         [] usr_idx = 3 -> circle_active' = TRUE /\ UNCHANGED <<jiggle_active, bar_active>>
    /\ usr_pc' = "idle"
    /\ UNCHANGED <<forge_enabled, auto_phase, phase_idx, shaping, ac_active, hold_active,
                   usr_idx>>
    /\ UNCHANGED <<goVars, otherVars>>

\* the grab is back: on GO, enter _advance_phase
GoSampleCall ==
    /\ go_pc = "sample"
    /\ \E green_count \in GoCounts :
         go_pc' = IF green_count > GoThreshold THEN "adv_inc" ELSE "check"
    /\ UNCHANGED <<go_cool, go_phase, modVars, usrVars, otherVars>>

\* self.phase_idx += 1; return past the last phase; phase = phases[self.phase_idx]
GoAdvInc ==
    /\ go_pc = "adv_inc"
    /\ phase_idx' = phase_idx + 1
    /\ IF phase_idx + 1 >= NumPhases
       THEN go_pc' = "adv_done" /\ UNCHANGED go_phase
       ELSE go_pc' = "adv_stop_circle" /\ go_phase' = phase_idx + 1
    /\ UNCHANGED <<forge_enabled, auto_phase, jiggle_active, bar_active, shaping,
                   circle_active, ac_active, hold_active, go_cool>>
    /\ UNCHANGED <<usrVars, otherVars>>

GoAdvStopCircle ==
    /\ go_pc = "adv_stop_circle"
    /\ circle_active' = FALSE
    /\ go_pc' = "adv_stop_jiggle"
    /\ UNCHANGED <<forge_enabled, auto_phase, phase_idx, jiggle_active, bar_active,
                   shaping, ac_active, hold_active, go_cool, go_phase>>
    /\ UNCHANGED <<usrVars, otherVars>>

GoAdvStopJiggle ==
    /\ go_pc = "adv_stop_jiggle"
    /\ jiggle_active' = FALSE
    /\ go_pc' = "adv_stop_bar"
    /\ UNCHANGED <<forge_enabled, auto_phase, phase_idx, circle_active, bar_active,
                   shaping, ac_active, hold_active, go_cool, go_phase>>
    /\ UNCHANGED <<usrVars, otherVars>>

GoAdvStopBar ==
    /\ go_pc = "adv_stop_bar"
    /\ bar_active' = FALSE
    /\ shaping' = FALSE
    /\ go_pc' = "adv_start"
    /\ UNCHANGED <<forge_enabled, auto_phase, phase_idx, circle_active, jiggle_active,
                   ac_active, hold_active, go_cool, go_phase>>
    /\ UNCHANGED <<usrVars, otherVars>>

\* the start() of the phase read before the stops
GoAdvStart ==
    /\ go_pc = "adv_start"
    /\ CASE go_phase = 0 -> jiggle_active' = TRUE /\ UNCHANGED <<bar_active, circle_active>>
         [] go_phase = 1 -> bar_active' = TRUE /\ UNCHANGED <<jiggle_active, circle_active>>
         [] go_phase = 2 -> circle_active' = TRUE /\ UNCHANGED <<jiggle_active, bar_active>>
    /\ go_pc' = IF go_phase = 2 THEN "adv_auto" ELSE "adv_done"
    /\ UNCHANGED <<forge_enabled, auto_phase, phase_idx, shaping, ac_active, hold_active,
                   go_cool, go_phase>>
    /\ UNCHANGED <<usrVars, otherVars>>

\* phase 'circle' only: self.auto_phase = False
GoAdvAuto ==
    /\ go_pc = "adv_auto"
    /\ auto_phase' = FALSE
    /\ go_pc' = "adv_done"
    /\ UNCHANGED <<forge_enabled, phase_idx, jiggle_active, bar_active, shaping,
                   circle_active, ac_active, hold_active, go_cool, go_phase>>
    /\ UNCHANGED <<usrVars, otherVars>>

\* back in GoDetector._loop: cooldown_until = time.time() + 3.0
GoAdvDone ==
    /\ go_pc = "adv_done"
    /\ go_cool' = GoCooldown
    /\ go_phase' = 0
    /\ go_pc' = "check"
    /\ UNCHANGED <<modVars, usrVars, otherVars>>

NextRace ==
    \/ ToggleForge
    \/ \E force \in Forces : ToggleAutoPhase(force)
    \/ \E idx \in 0..3, force \in Forces : UsrBegin(idx, force)
    \/ UsrBranch
    \/ UsrStopA
    \/ UsrStopB
    \/ UsrStopC
    \/ UsrSetShaping
    \/ UsrStart
    \/ FocusChange
    \/ TickSecond
    \/ GoCheck
    \/ GoSampleCall
    \/ GoAdvInc
    \/ GoAdvStopCircle
    \/ GoAdvStopJiggle
    \/ GoAdvStopBar
    \/ GoAdvStart
    \/ GoAdvAuto
    \/ GoAdvDone

SpecRace == Init /\ [][NextRace]_vars

------------------------------------------------------------------------------
(* The loops under the handlers.  Each specification below runs the threads  *)
(* its claims are about against the handlers that drive them; time passes in *)
(* long pauses (every running timer expires).                                *)

Elapse == Tick(GoCooldown)

\* the bar loop and the jiggle loop under the node clicks
NextHandover ==
    \/ ToggleForge
    \/ \E idx \in 0..3, force \in Forces : NodeClick(idx, force)
    \/ Quit
    \/ FocusChange
    \/ Elapse
    \/ BarNext
    \/ JigNext

SpecHandover == Init /\ [][NextHandover]_vars

\* the bar loop alone
NextBar ==
    \/ ToggleForge
    \/ \E idx \in 1..2, force \in Forces : NodeClick(idx, force)
    \/ Quit
    \/ FocusChange
    \/ Elapse
    \/ BarNext

SpecBar == Init /\ [][NextBar]_vars

\* the bar loop thread is scheduled again and again (a daemon thread with
\* bounded sleeps)
SpecBarFair == SpecBar /\ WF_vars(BarNext)

\* the bar loop alone with the clock read every 0.05 s
BarSleep == 5

TickBar == Tick(BarSleep)

NextBarTimed ==
    \/ ToggleForge
    \/ \E idx \in 1..2, force \in Forces : NodeClick(idx, force)
    \/ Quit
    \/ FocusChange
    \/ TickBar
    \/ BarNext

SpecBarTimed == Init /\ [][NextBarTimed]_vars

\* the bar loop under the Bar and Shaping nodes while the focus stays as it is
NextShape ==
    \/ ToggleForge
    \/ \E idx \in 1..2, force \in Forces : NodeClick(idx, force)
    \/ Quit
    \/ Elapse
    \/ BarNext

SpecShape == Init /\ [][NextShape]_vars

\* the bar loop with captures that may raise, in it and in the ring loop (whose
\* other steps are those of SpecRing)
NextFault ==
    \/ ToggleForge
    \/ \E idx \in 1..3, force \in Forces : NodeClick(idx, force)
    \/ Quit
    \/ FocusChange
    \/ Elapse
    \/ BarNext
    \/ BarGrabRaises
    \/ RingGrabRaises

SpecFault == Init /\ [][NextFault]_vars

\* shutdown: the bar loop and the hold-key loop under _quit
NextQuit ==
    \/ ToggleForge
    \/ \E idx \in 0..3, force \in Forces : NodeClick(idx, force)
    \/ \E force \in Forces : ToggleHoldLeft(force)
    \/ Quit
    \/ FocusChange
    \/ Elapse
    \/ BarNext
    \/ HkNext

SpecQuit == Init /\ [][NextQuit]_vars

\* the ring loop alone, the clock read every 0.02 s
TickRing == Tick(GreenBase)

NextRing ==
    \/ ToggleForge
    \/ \E force \in Forces : NodeClick(3, force)
    \/ Quit
    \/ FocusChange
    \/ TickRing
    \/ RingNext

SpecRing == Init /\ [][NextRing]_vars

\* the ring loop thread runs again and again and the clock advances
SpecRingFair == SpecRing /\ WF_vars(RingNext) /\ WF_vars(TickRing)

\* one loop thread at a time under the handlers and the focus changes: the
\* loops read the flags the handlers write and write none of each other's state
Scopes == {"ring", "bar", "jiggle", "go", "auto"}

InitFocus == InitState /\ scope \in Scopes

GoNext == GoCheck \/ GoSample

NextFocus ==
    \/ ToggleForge
    \/ \E idx \in 0..3, force \in Forces : NodeClick(idx, force)
    \/ \E force \in Forces : ToggleAutoPhase(force)
    \/ \E force \in Forces : ToggleAutoclicker(force)
    \/ Quit
    \/ FocusChange
    \/ Elapse
    \/ scope = "ring" /\ RingNext
    \/ scope = "bar" /\ BarNext
    \/ scope = "jiggle" /\ JigNext
    \/ scope = "go" /\ GoNext
    \/ scope = "auto" /\ AcNext

SpecFocus == InitFocus /\ [][NextFocus]_vars

------------------------------------------------------------------------------
(* Claims *)

ActiveCount4 ==
    Cardinality({i \in 1..4 :
        <<jiggle_active, bar_active, circle_active, ac_active>>[i]})

ActiveCount3 ==
    Cardinality({i \in 1..3 : <<jiggle_active, bar_active, circle_active>>[i]})

\* C1: in every state reached by node clicks, auto-phase toggles, GO advances,
\* forge toggles and autoclicker toggles, at most one of cursor_jiggle.active,
\* bar_game.active, circle_detector.active and autoclicker.active is true.
C1_AtMostOneOfFour == ActiveCount4 <= 1

\* C2: under any interleaving of a user node click with _advance_phase on the
\* GO watcher thread, at most one of cursor_jiggle.active, bar_game.active and
\* circle_detector.active is true once both calls have finished.
C2_AtMostOneAfterBoth ==
    (usr_pc = "idle" /\ go_pc \in {"check", "sample", "exit"}) => ActiveCount3 <= 1

EvFrom(srcs) == \E i \in 1..Len(ev) : ev[i].src \in srcs

\* C3: when a loop B is started while the bar loop A is active and holds the
\* button, A's button-up is injected before B's first event: no event of
\* another loop is injected while the handover's release is still owed.
C3_ReleaseBeforeOtherLoop ==
    handover => ~EvFrom({"jiggle", "ring", "auto"})

BarPaused == ~bar_active \/ ~focused

\* C4: a bar loop that holds the button and is deactivated or unfocused while
\* the process runs sends the button-up before it goes idle (the pause branch
\* leaves nothing held) and before any other event (whatever it sends while
\* holding is the button-up), and, the loop thread being scheduled, the release
\* happens for as long as the loop stays deactivated or unfocused.
C4_ReleaseOnPause ==
    /\ [](bar_pc = "pause_shaping" => ~clicking)
    /\ [][(clicking /\ BarNext /\ ev' # NoEv) =>
            (ev' = <<Ev("bar", "up")>> /\ ~clicking')]_vars
    /\ [][(clicking /\ bar_pc = "check" /\ running /\ BarPaused /\ BarNext) =>
            (ev' = <<Ev("bar", "up")>> /\ ~clicking')]_vars
    /\ ((clicking /\ running /\ BarPaused) ~> (~clicking \/ ~running \/ ~BarPaused))

C4_Witness ==
    bar_pc = "pause_shaping" /\ ev = <<Ev("bar", "up")>> /\ ~clicking

\* C5: after _quit every loop's active flag is false, and no loop thread has
\* left its while-running loop with its own button-down or key-down unmatched.
C5_QuitReleasesAll ==
    /\ ~running => (~jiggle_active /\ ~bar_active /\ ~circle_active /\ ~ac_active
                    /\ ~hold_active)
    /\ bar_pc = "exit" => ~clicking
    /\ hk_pc = "exit" => ~left_key

RingInterrupted == ~running \/ ~circle_active \/ ~focused

\* C6: a READY tick clicks exactly when green_delay has passed since the green
\* was seen and otherwise waits in READY; the click is one button-down and one
\* button-up, after which the state is COOLDOWN with 0.4 s to run; a COOLDOWN
\* tick detects, drags and clicks nothing and goes to SCAN exactly when the
\* 0.4 s are over; an uninterrupted READY leads to the click and the COOLDOWN
\* to SCAN.
C6_ReadyClicksOnceThenCooldown ==
    /\ [][(ring_pc = "act" /\ state = "READY" /\ RingNext) =>
            IF GreenDue
            THEN ev' = <<Ev("ring", "down")>> /\ ring_pc' = "click_up" /\ state' = "READY"
            ELSE ev' = NoEv /\ ring_pc' = "check" /\ state' = "READY"]_vars
    /\ [][(ring_pc = "click_up" /\ RingNext) =>
            (ev' = <<Ev("ring", "up")>> /\ state' = "COOLDOWN"
             /\ cd_left' = RingCooldown /\ ring_pc' = "check")]_vars
    /\ [](ring_clicks <= 1)
    /\ [](state = "COOLDOWN" => ring_clicks = 1)
    /\ [][(ring_pc = "act" /\ state = "COOLDOWN" /\ RingNext) =>
            (ev' = NoEv /\ track' = track /\ lost_frames' = lost_frames
             /\ state' = IF cd_left = 0 THEN "SCAN" ELSE "COOLDOWN")]_vars
    /\ (state = "READY") ~> (state = "COOLDOWN" \/ RingInterrupted)
    /\ (state = "COOLDOWN") ~> (state = "SCAN" \/ ~running)

C6_Witness ==
    state = "COOLDOWN" /\ cd_left = RingCooldown /\ ev = <<Ev("ring", "up")>>

\* C7: a TRACK tick that finds no green candidate in range sets the loss
\* counter to 0 when a white candidate is visible and adds 1 to it when none
\* is; the state becomes SCAN exactly when the counter then exceeds 15, and
\* such a tick, like every tick of the lock, sends no event.
C7_StaleLockFallsBack ==
    /\ [][(ring_pc = "act" /\ state = "TRACK") =>
            \A greens \in SUBSET Candidates, whites \in SUBSET Candidates :
              \/ \E g \in greens : Near(g, track)
              \/ /\ lost_frames' = IF whites # {} THEN 0 ELSE lost_frames + 1
                 /\ state' = IF lost_frames' > LostLimit THEN "SCAN" ELSE "TRACK"
                 /\ ev' = NoEv
              \/ ~RingTrack(greens, whites)]_vars
    /\ [][(ring_pc = "act" /\ state = "TRACK" /\ RingNext) =>
            (ev' = NoEv /\ ring_pc' = "check")]_vars
    /\ [](state = "TRACK" => (lost_frames <= LostLimit /\ ring_pc # "click_up"))
    /\ [](lost_frames <= LostLimit + 1)

C7_Witness ==
    state = "SCAN" /\ lost_frames = LostLimit + 1 /\ ring_pc = "check" /\ ~ring_paused

RingEdges ==
    { <<"SCAN", "TRACK">>, <<"TRACK", "READY">>, <<"TRACK", "SCAN">>,
      <<"READY", "COOLDOWN">>, <<"COOLDOWN", "SCAN">> }

RingSends(kind) == \E i \in 1..Len(ev') : ev'[i] = Ev("ring", kind)

\* C8: the ring loop's state changes along SCAN->TRACK, TRACK->READY,
\* TRACK->SCAN, READY->COOLDOWN and COOLDOWN->SCAN, or to SCAN on a tick that
\* finds the loop deactivated or unfocused; the click belongs to the
\* READY->COOLDOWN transition (button-down in READY, button-up on the step
\* that enters COOLDOWN) and the drag to the SCAN->TRACK transition.
C8_RingTransitions ==
    /\ [][state' # state =>
            \/ <<state, state'>> \in RingEdges /\ ring_pc \in {"act", "click_up"}
            \/ state' = "SCAN" /\ ring_pc = "check"
                 /\ (~circle_active \/ ~focused)]_vars
    /\ [][RingSends("down") => (state = "READY" /\ ring_pc' = "click_up")]_vars
    /\ [][RingSends("up") => (state = "READY" /\ state' = "COOLDOWN")]_vars
    /\ [](ring_pc = "click_up" => state = "READY")
    /\ [][RingSends("move") => (state = "SCAN" /\ state' = "TRACK")]_vars

C8_Witness ==
    state = "TRACK" /\ ev = <<Ev("ring", "move")>>

\* C9: a ring tick that starts with the loop deactivated or the target
\* unfocused sets the state to SCAN, grabs, drags and clicks nothing, and
\* leaves the overlay hidden; the tick that follows such ticks runs the SCAN
\* branch.
C9_PauseResetsToScan ==
    /\ [][(ring_pc = "check" /\ running /\ (~circle_active \/ ~focused) /\ RingNext) =>
            (state' = "SCAN" /\ ~ring_shown' /\ ev' = NoEv /\ ring_pc' = "check"
             /\ track' = track)]_vars
    /\ []((ring_paused /\ ring_pc = "act") => state = "SCAN")

C9_Witness ==
    ring_paused /\ ring_pc = "act" /\ state = "SCAN" /\ track # <<0, 0>>

Release(e) == e.kind \in {"up", "keyup"}

LoopStep == RingNext \/ BarNext \/ JigNext \/ GoNext \/ AcNext

\* C10, as stated: while the target is not focused no loop sends anything but
\* a release, and the GO watcher does not advance the phase.
C10_NothingWhileUnfocused ==
    [][(~focused /\ LoopStep) =>
         /\ \A i \in 1..Len(ev') : Release(ev'[i])
         /\ phase_idx' = phase_idx]_vars

\* C10, amended: a tick that starts with the target unfocused, that is whose
\* test of is_focused() fails, sends nothing but the release of what the loop
\* holds, does not advance the phase, and ends without a grab; the events of a
\* tick that started focused may follow the loss of focus.
C10_UnfocusedTickIsIdle ==
    /\ [][(~focused /\ running /\ ring_pc = "check" /\ RingNext) =>
            (ev' = NoEv /\ ring_pc' = "check")]_vars
    /\ [][(~focused /\ running /\ bar_pc = "check" /\ BarNext) =>
            (ev' = (IF clicking THEN <<Ev("bar", "up")>> ELSE NoEv)
             /\ bar_pc' = "pause_shaping")]_vars
    /\ [][(~focused /\ bar_pc = "pause_shaping" /\ BarNext) =>
            (ev' = NoEv /\ bar_pc' = "check")]_vars
    /\ [][(~focused /\ running /\ jig_pc = "check" /\ JigNext) =>
            (ev' = NoEv /\ jig_pc' = "check")]_vars
    /\ [][(~focused /\ running /\ ac_pc = "check" /\ AcNext) =>
            (ev' = NoEv /\ ac_pc' = "check")]_vars
    /\ [][(~focused /\ running /\ go_pc = "check" /\ GoNext) =>
            (ev' = NoEv /\ go_pc' = "check" /\ phase_idx' = phase_idx)]_vars

C10_Witness ==
    ~focused /\ scope = "bar" /\ bar_pc = "pause_shaping" /\ ev = <<Ev("bar", "up")>>

ActivityState ==
    <<jiggle_active, bar_active, shaping, circle_active, ac_active, auto_phase, phase_idx>>

\* C11: a loss of focus alone changes none of cursor_jiggle.active,
\* bar_game.active, bar_game.shaping, circle_detector.active,
\* autoclicker.active, auto_phase and phase_idx: no step a loop takes while the
\* target is unfocused changes any of them.
C11_FocusLossKeepsActivity ==
    [][(~focused /\ LoopStep) => UNCHANGED ActivityState]_vars

\* C12: a tracking tick that finds the yellow zone and the marker, with the
\* marker within the deadband of the zone's centre, sends no mouse event and
\* leaves the button held or released as it was.
C12_DeadbandHolds ==
    [][(bar_pc = "act" /\ ~shaping) =>
         \A f \in BarFrames :
           (f.ycount >= YellowMin /\ InBand(f) /\ BarTrack(f)) =>
              (ev' = NoEv /\ clicking' = clicking /\ in_band')]_vars

C12_Witness ==
    in_band /\ clicking /\ bar_pc = "check" /\ ev = NoEv /\ bar_active /\ focused

C14_ShapingIsTerminal ==
    [][(shaping /\ bar_active /\ focused /\ BarNext) => (shaping' /\ (clicking' => clicking))]_vars

ActiveLoops == <<jiggle_active, bar_active, circle_active>>

\* phases = ['jiggle', 'bar_game', 'circle']: the loop of index i and no other
LoopAt(i) == <<i = 0, i = 1, i = 2>>

\* C15: while auto-phase is on, a sample with more than 5000 green pixels
\* adds one to phase_idx, leaves exactly the loop at the new index active
\* (0 idle-motion, 1 bar, 2 ring) and starts the 3 s cooldown; a sample with
\* 5000 or fewer changes nothing; while the program runs with auto-phase on,
\* the loop of the current index is the only one active (none at -1, just
\* after switching on), so the detections after switching on take the loops
\* in order.
C15_DetectionsAdvanceInOrder ==
    /\ [][(go_pc = "sample" /\ auto_phase) =>
            \A n \in GoCounts :
              GoSampleOn(n) =>
                IF n > GoThreshold
                THEN /\ phase_idx' = phase_idx + 1
                     /\ phase_idx' \in 0..(NumPhases - 1)
                     /\ ActiveLoops' = LoopAt(phase_idx')
                     /\ go_cool' = GoCooldown
                ELSE UNCHANGED <<ActivityState, go_cool>>]_vars
    /\ []((running /\ auto_phase) =>
          (phase_idx \in -1..(NumPhases - 2) /\ ActiveLoops = LoopAt(phase_idx)))

C15_Witness ==
    auto_phase /\ phase_idx = 1 /\ bar_active /\ go_cool = GoCooldown /\ go_pc = "check"

\* C16: the detection that brings phase_idx to 2 starts the ring loop and
\* switches auto-phase off in the same step; while phase_idx is 2, that is
\* until auto-phase is switched on again, no step of the GO watcher changes a
\* loop, auto_phase or phase_idx; phase_idx never exceeds 2.
C16_OneShotSequence ==
    /\ [][(GoNext /\ phase_idx' # phase_idx /\ phase_idx' = NumPhases - 1) =>
            (ActiveLoops' = LoopAt(NumPhases - 1) /\ ~auto_phase')]_vars
    /\ [][(GoNext /\ phase_idx = NumPhases - 1) => UNCHANGED ActivityState]_vars
    /\ [](phase_idx = NumPhases - 1 => (~auto_phase /\ go_pc # "sample"))
    /\ [](phase_idx <= NumPhases - 1)
    /\ [][(phase_idx = NumPhases - 1 /\ phase_idx' # phase_idx) =>
            (auto_phase' /\ phase_idx' = -1)]_vars

C16_Witness ==
    phase_idx = NumPhases - 1 /\ circle_active /\ ~auto_phase /\ go_cool = 0
    /\ go_pc = "check" /\ focused

\* what fails among the OS calls of one is_focused()
AnyCallFails(os) ==
    \/ os.fg # "ok" \/ os.tid # "ok" \/ os.open # "ok"
    \/ os.query # "ok" \/ os.close # "ok"

SameIgnoringCase(a, b) ==
    /\ Len(a) = Len(b)
    /\ \A i \in 1..Len(a) : LowerChar(a[i]) = LowerChar(b[i])

\* C18: is_focused() never raises; it returns False whenever one of its OS
\* calls fails or the process handle cannot be opened, and True only when the
\* image name of the foreground process, compared without regard to case, is
\* the target executable's.
C18_IsFocusedTotal ==
    call.fn = "is_focused" =>
      /\ call.out \in {"True", "False"}
      /\ AnyCallFails(call.arg) => call.out = "False"
      /\ call.out = "True" => SameIgnoringCase(LastPart(call.arg.path), TargetExe)

C18_Witness ==
    /\ call.fn = "is_focused" /\ call.out = "True"
    /\ call.arg.path # TargetExe /\ call.arg.path # LastPart(call.arg.path)

AtLeastTwo(n) == IF n < 2 THEN 2 ELSE n

\* C19: screen_to_abs and get_abs_coords never divide by zero: with a virtual
\* screen width or height of 0 or 1 they compute with an extent of 2 and still
\* return coordinates.
C19_ExtentAtLeastTwo ==
    call.fn \in {"screen_to_abs", "get_abs_coords"} =>
      /\ call.out.err = "none"
      /\ call.out.val[1] = ToAbs(call.arg[1], call.m.left, AtLeastTwo(call.m.w))
      /\ call.out.val[2] = ToAbs(call.arg[2], call.m.top, AtLeastTwo(call.m.h))

Dist(a, b) == IF a < b THEN b - a ELSE a - b

\* C20: with extents of at least 2 and a point on the virtual screen, the
\* inverse mapping origin + abs * (extent - 1) / 65535 of what screen_to_abs
\* returns lies within one pixel of the point, on both axes (distances are
\* compared in 65535ths of a pixel).
C20_RoundTripWithinPixel ==
    (/\ call.fn = "screen_to_abs"
     /\ call.m.w >= 2 /\ call.m.h >= 2
     /\ call.arg[1] \in call.m.left..(call.m.left + call.m.w - 1)
     /\ call.arg[2] \in call.m.top..(call.m.top + call.m.h - 1)) =>
      /\ call.out.err = "none"
      /\ call.out.val[1] \in 0..AbsMax /\ call.out.val[2] \in 0..AbsMax
      /\ Dist(call.out.val[1] * (call.m.w - 1), (call.arg[1] - call.m.left) * AbsMax)
           <= AbsMax
      /\ Dist(call.out.val[2] * (call.m.h - 1), (call.arg[2] - call.m.top) * AbsMax)
           <= AbsMax

C20_Witness ==
    /\ call.fn = "screen_to_abs" /\ call.out.err = "none"
    /\ call.m.w = 1920 /\ call.m.h = 1080 /\ call.m.left < 0
    /\ call.arg = <<call.m.left + 1918, call.m.top + 540>>
    /\ call.out.val[1] * (call.m.w - 1) # (call.arg[1] - call.m.left) * AbsMax

\* C17: a failing OS call inside a tick of a control loop (the capture, the
\* cursor query or the input dispatch raising) does not end the loop: the bar
\* and ring loops go on iterating, so neither thread is ever ended by an
\* exception, and a button the bar loop holds is not left held by one.
C17_LoopsSurviveFailure ==
    /\ bar_pc # "raised"
    /\ ring_pc # "raised"

\* C27: switching auto-phase on (toggle_auto_phase while it is off, with forge
\* enabled and the target focused or the call forced) leaves auto_phase true,
\* phase_idx at -1 and the jiggle, bar and ring loops all inactive, whatever
\* was active before.
C27_AutoOnResets ==
    [][\A force \in Forces :
         (/\ ~auto_phase /\ forge_enabled /\ (focused \/ force)
          /\ ToggleAutoPhase(force)) =>
           (/\ auto_phase' /\ phase_idx' = -1
            /\ ActiveLoops' = <<FALSE, FALSE, FALSE>> /\ ~shaping')]_vars

C27_Witness ==
    /\ auto_phase /\ phase_idx = -1 /\ ActiveLoops = <<FALSE, FALSE, FALSE>>
    /\ forge_enabled /\ ac_active /\ ~focused /\ go_pc = "check"

\* a step of the GO watcher thread, statement by statement
GoThreadStep ==
    \/ GoCheck \/ GoSampleCall \/ GoAdvInc \/ GoAdvStopCircle \/ GoAdvStopJiggle
    \/ GoAdvStopBar \/ GoAdvStart \/ GoAdvAuto \/ GoAdvDone

\* C23: the GO watcher changes loop activation only while auto-phase is on:
\* once auto-phase is off, also when it went off between the watcher's test
\* of auto_phase and its call of _advance_phase, no step of the watcher starts
\* or stops a loop or changes phase_idx.
C23_WatcherOnlyWhileAuto ==
    [][(~auto_phase /\ GoThreadStep) => UNCHANGED <<ActiveLoops, shaping, phase_idx>>]_vars

\* C28: two advances by the GO watcher are never less than 3 s apart: an
\* advance happens only with the cooldown run out and starts a full one, no
\* sample is taken while it runs, and it runs down only as time passes, not
\* on focus changes or on auto-phase being switched off and on.
C28_AdvancesThreeSecondsApart ==
    /\ [][(GoNext /\ phase_idx' # phase_idx) =>
            (go_cool = 0 /\ go_cool' = GoCooldown)]_vars
    /\ [](go_pc = "sample" => go_cool = 0)
    /\ [][go_cool' < go_cool => TickSecond]_vars
    /\ [][(go_cool > 0 /\ GoNext) => UNCHANGED <<ActivityState, go_cool>>]_vars

C28_Witness ==
    /\ go_cool > 0 /\ go_cool < GoCooldown
    /\ auto_phase /\ focused /\ phase_idx = 0 /\ jiggle_active /\ go_pc = "check"

\* where a candidate of the half-size frame lies on the virtual desktop
OnDesktop(c) == <<c.cx * InvScale + MonLeft, c.cy * InvScale + MonTop>>

SquareDist(p, q) == (p[1] - q[1]) * (p[1] - q[1]) + (p[2] - q[2]) * (p[2] - q[2])

\* C25: a TRACK tick takes the ring loop to READY if and only if at least one
\* green candidate, converted to virtual-desktop coordinates, lies at a
\* distance of less than 150 pixels from the tracked point; candidates at 150
\* or more never do, however many there are.
C25_ReadyIffGreenNear ==
    [][(ring_pc = "act" /\ state = "TRACK") =>
         \A greens \in SUBSET Candidates :
           \/ state' = "READY" <=>
                \E g \in greens : SquareDist(OnDesktop(g), track) < 150 * 150
           \/ \A whites \in SUBSET Candidates : ~RingTrack(greens, whites)]_vars

C25_Witness ==
    /\ state = "READY" /\ ring_pc = "check" /\ green_age = 0 /\ mon_h # RefHeight
    /\ \E g \in Candidates :
         SquareDist(OnDesktop(g), track) \in 1..(150 * 150 - 1)

\* C26: a SCAN tick with a white candidate sets the tracked point to
\* (int(cx / scale) + monitor left, int(cy / scale) + monitor top) of a
\* candidate of maximal area, sends nothing but the pointer moves of the drag
\* to that point, resets the loss counter and ends in TRACK; a SCAN tick with
\* no white candidate stays in SCAN and sends nothing.
C26_ScanLocksLargest ==
    [][(ring_pc = "act" /\ state = "SCAN") =>
         \A whites \in SUBSET Candidates :
           RingScan(whites) =>
             IF whites # {}
             THEN /\ \E w \in whites :
                       /\ \A v \in whites : v.area <= w.area
                       /\ track' = OnDesktop(w)
                  /\ state' = "TRACK"
                  /\ lost_frames' = 0
                  /\ ev' \in {NoEv, <<Ev("ring", "move")>>}
             ELSE /\ state' = "SCAN"
                  /\ ev' = NoEv
                  /\ UNCHANGED <<track, lost_frames>>]_vars

C26_Witness ==
    /\ state = "TRACK" /\ lost_frames = 0 /\ ev = <<Ev("ring", "move")>>
    /\ mon_h # RefHeight /\ track = <<2 * 145 + 1920, 2 * 160 - 540>>

\* the claim's target and deadband for a frame
TargetY(f) == f.y_min + ((f.y_max - f.y_min) * 625) \div 1000
Band(f) == Max(5, Max((f.y_max - f.y_min) \div 2, 1) \div 4)

\* C24: a tracking tick with zone and marker detected, target = y_min +
\* int((y_max - y_min) * 0.625) and deadband = max(5, max((y_max - y_min) // 2,
\* 1) // 4): with marker > target + deadband the button is held after the
\* tick and a button-down is sent only if it was not held; with marker <
\* target - deadband the button is released after the tick and a button-up is
\* sent only if it was held.
C24_PressBelowReleaseAbove ==
    [][(bar_pc = "act" /\ ~shaping) =>
         \A f \in BarFrames :
           (f.ycount >= YellowMin /\ f.white_cy # NoWhite /\ BarTrack(f)) =>
              /\ f.white_cy > TargetY(f) + Band(f) =>
                   /\ clicking'
                   /\ ev' = IF clicking THEN NoEv ELSE <<Ev("bar", "down")>>
              /\ f.white_cy < TargetY(f) - Band(f) =>
                   /\ ~clicking'
                   /\ ev' = IF clicking THEN <<Ev("bar", "up")>> ELSE NoEv]_vars

C24_Witness ==
    /\ ~clicking /\ ev = <<Ev("bar", "up")>> /\ ~in_band /\ bar_pc = "check"
    /\ bar_active /\ focused /\ yellow_gone = -1

\* C29: click(x, y) emits exactly two events, a left-button-down followed by a
\* left-button-up, both with the absolute coordinates computed from the cursor
\* position sampled once at the start of the call; x and y do not influence
\* the events and neither event is a pointer move.
C29_ClickIsDownUpAtCursor ==
    call.fn = "click" =>
      /\ call.out.err = "none"
      /\ Len(call.out.sent) = 2
      /\ call.out.sent[1].flags = {"ABSOLUTE", "VIRTUALDESK", "LEFTDOWN"}
      /\ call.out.sent[2].flags = {"ABSOLUTE", "VIRTUALDESK", "LEFTUP"}
      /\ \A i \in 1..2 :
           call.out.sent[i].abs = <<ToAbs(call.pt[1], call.m.left, call.m.w),
                                    ToAbs(call.pt[2], call.m.top, call.m.h)>>

RECURSIVE SumTo(_, _, _)
\* the sum of the first k deltas of moves on one axis
SumTo(moves, k, axis) == IF k = 0 THEN 0 ELSE SumTo(moves, k - 1, axis) + moves[k][axis]

Between(v, a, b) == (a <= v /\ v <= b) \/ (b <= v /\ v <= a)

\* C30: for a displacement (dx, dy) with |dx| >= 2 or |dy| >= 2 and steps >= 1,
\* move_to sends exactly steps relative moves whose deltas sum to (dx, dy) on
\* each axis, and every partial sum lies between 0 and the total on each axis.
C30_MovesSumWithoutOvershoot ==
    (/\ call.fn = "move_to"
     /\ \/ call.arg[1] - call.pt[1] \notin -1..1
        \/ call.arg[2] - call.pt[2] \notin -1..1) =>
      /\ Len(call.out) = call.steps
      /\ \A axis \in 1..2 :
           /\ SumTo(call.out, call.steps, axis) = call.arg[axis] - call.pt[axis]
           /\ \A k \in 0..call.steps :
                Between(SumTo(call.out, k, axis), 0, call.arg[axis] - call.pt[axis])

C30_Witness ==
    /\ call.fn = "move_to" /\ call.steps = 20
    /\ call.arg[1] - call.pt[1] = -21 /\ call.arg[2] - call.pt[2] = 7
    /\ Len(call.out) = 20 /\ call.out[1] = <<-1, 0>> /\ call.out[20] = <<-2, 1>>

\* the four filters of the claim on a contour in a frame
AreaOk(c) == c.area >= 40
AspectOk(c) == Max(c.w, c.h) <= 2 * Min(c.w, c.h)
FillOk(c) == 56500 * c.area >= 355 * c.r10 * c.r10
OffEdges(c, frame) ==
    /\ c.cx10 >= MarginX(frame) * 10 /\ c.cx10 <= (frame[1] - MarginX(frame)) * 10
    /\ c.cy10 >= MarginY(frame) * 10 /\ c.cy10 <= (frame[2] - MarginY(frame)) * 10
FourFilters(c, frame) == AreaOk(c) /\ AspectOk(c) /\ FillOk(c) /\ OffEdges(c, frame)

\* C21 as stated: _find_targets returns a region if and only if it passes the
\* four filters (area, aspect ratio, fill ratio, edge margins).
C21_ReturnedIffFourFilters ==
    (call.fn = "find_targets" /\ Len(call.arg.cs) = 1) =>
      (call.out # <<>> <=> FourFilters(call.arg.cs[1], call.arg.frame))

\* C21, amended: _find_targets returns a region, as (int(cx), int(cy), area),
\* if and only if it passes the four filters and its minimal enclosing circle
\* has a radius of at least 5; a 1x50 rectangle and a plus shape with 15% fill
\* are never returned.
C21_ReturnedIffFiltersAndRadius ==
    (call.fn = "find_targets" /\ Len(call.arg.cs) = 1) =>
      LET c == call.arg.cs[1]
      IN  /\ call.out # <<>> <=> (FourFilters(c, call.arg.frame) /\ c.r10 >= 50)
          /\ call.out # <<>> =>
               call.out = <<<<c.cx10 \div 10, c.cy10 \div 10, c.area>>>>
          /\ (c.w = 1 /\ c.h = 50) => call.out = <<>>
          /\ (c.area = 188 /\ c.r10 = 200) => call.out = <<>>

C21_Witness ==
    /\ call.fn = "find_targets" /\ Len(call.arg.cs) = 1 /\ Len(call.out) = 1
    /\ call.arg.cs[1].area = 63 /\ call.arg.cs[1].r10 = 100 /\ call.arg.cs[1].h = 20
    /\ call.arg.cs[1].cx10 = MarginX(call.arg.frame) * 10

InsideDesktop ==
    /\ call.arg[1] \in call.m.left..(call.m.left + call.m.w - 1)
    /\ call.arg[2] \in call.m.top..(call.m.top + call.m.h - 1)

\* C31: for every pixel inside the virtual desktop screen_to_abs returns
\* integers in 0..65535 on both axes, maps the origin pixel to 0 and the last
\* pixel to 65535, and is non-decreasing in x and in y (the result is compared
\* with that of every pixel further right or further down).
C31_InRangeAndMonotone ==
    (call.fn = "screen_to_abs" /\ InsideDesktop) =>
      /\ call.out.err = "none"
      /\ call.out.val[1] \in 0..AbsMax /\ call.out.val[2] \in 0..AbsMax
      /\ call.arg[1] = call.m.left => call.out.val[1] = 0
      /\ call.arg[2] = call.m.top => call.out.val[2] = 0
      /\ call.arg[1] = call.m.left + call.m.w - 1 => call.out.val[1] = AbsMax
      /\ call.arg[2] = call.m.top + call.m.h - 1 => call.out.val[2] = AbsMax
      /\ \A dx \in Offsets(call.m.w) : \A dy \in Offsets(call.m.h) :
           LET far == ScreenToAbs(call.m.left + dx, call.m.top + dy, call.m)
           IN  /\ call.m.left + dx >= call.arg[1] => far.val[1] >= call.out.val[1]
               /\ call.m.top + dy >= call.arg[2] => far.val[2] >= call.out.val[2]

\* the bar loop sends the button-down of a shaping click in this step
ShapeDown == BarNext /\ bar_pc' = "shape_up"

\* C32 (events): in SHAPING each click is a button-down immediately followed by
\* a button-up at the same point: the next event of the loop after the
\* button-down is the button-up at the point of the button-down, which lies
\* within 15 pixels on each axis of (monitor left + int(0.6 * width), monitor
\* top + int(0.5 * height)), and a button held from tracking is released
\* before the first shaping click.
C32_ShapingClickAtPoint ==
    /\ [][ShapeDown =>
            /\ ~clicking
            /\ Len(ev') = 1 /\ ev'[1].src = "bar" /\ ev'[1].kind = "down"
            /\ ev'[1].at = shape_pt'
            /\ Dist(ev'[1].at[1], MonLeft + (MonWidth * 3) \div 5) <= 15
            /\ Dist(ev'[1].at[2], MonTop + mon_h \div 2) <= 15]_vars
    /\ [][(bar_pc = "shape_up" /\ BarNext) =>
            (ev' = <<[src |-> "bar", kind |-> "up", at |-> shape_pt]>> /\ ~clicking')]_vars
    /\ [][(bar_pc = "shape_up" /\ ~BarNext) => (bar_pc' = "shape_up" /\ UNCHANGED shape_pt)]_vars
    /\ [][(bar_pc = "act" /\ shaping /\ clicking /\ BarNext) =>
            (ev' = <<Ev("bar", "up")>> /\ ~clicking')]_vars

\* C32 (timing): consecutive shaping clicks start at least 0.15 s apart.
C32_ShapingClicksApart ==
    [][ShapeDown => shape_age >= ShapeGap]_vars

\* C32: both parts
C32_ShapingClicks == C32_ShapingClickAtPoint /\ C32_ShapingClicksApart

\* C33: for each loop component at most one polling thread exists at any time,
\* however many times start() is called and also when it is called concurrently
\* from the hotkey thread, the GUI thread and the GO-watcher thread.
C33_OneThreadPerLoop == \A c \in LoopNames : AliveThreads(c) <= 1

\* C34: after the Shaping node is switched on by hand (_on_node_click(2) while
\* shaping is off), bar_game.active and bar_game.shaping are both true and stay
\* true, and the bar loop performs shaping clicks rather than marker tracking
\* (no tick of it takes the tracking or the yellow-absent branch and it takes
\* up no hold), until the user stops the bar game.
C34_ManualShapingStays ==
    /\ [](by_hand => (bar_active /\ shaping))
    /\ [][(by_hand /\ bar_pc = "act" /\ BarNext) =>
            /\ ~clicking'
            /\ ~\E f \in BarFrames : BarTrack(f) \/ BarYellowGone(f)]_vars

\* C35: in every reachable state where forge_enabled is false,
\* cursor_jiggle.active, bar_game.active, bar_game.shaping,
\* circle_detector.active and auto_phase are all false: disabling forge
\* switches them all off, and while forge is disabled node clicks and
\* auto-phase toggles change nothing.
C35_ForgeOffAllOff ==
    /\ [](~forge_enabled =>
            (~jiggle_active /\ ~bar_active /\ ~shaping /\ ~circle_active /\ ~auto_phase))
    /\ [][(/\ ~forge_enabled
           /\ \/ \E idx \in 0..3, force \in Forces : NodeClick(idx, force)
              \/ \E force \in Forces : ToggleAutoPhase(force)) => UNCHANGED modVars]_vars

\* the mouse-button events of the bar loop among those of the step
BarButtons(es) == SelectSeq(es, LAMBDA e : e.src = "bar" /\ e.kind \in {"down", "up"})

\* C36: the mouse-button events the bar loop emits strictly alternate down, up,
\* down, up, starting with a down, across tracking, yellow-absent, shaping and
\* paused ticks (each event is of the other kind than the last one the loop
\* sent, the first being a down), and at the start of every tick the loop's
\* clicking flag is true exactly when the last event it emitted was a
\* button-down.
C36_BarEventsAlternate ==
    /\ [][BarNext =>
            /\ Len(BarButtons(ev')) <= 1
            /\ Len(BarButtons(ev')) = 1 =>
                 /\ BarButtons(ev')[1].kind # bar_last
                 /\ bar_last' = BarButtons(ev')[1].kind
            /\ Len(BarButtons(ev')) = 0 => bar_last' = bar_last]_vars
    /\ [][~BarNext => bar_last' = bar_last]_vars
    /\ [](bar_pc = "check" => (clicking <=> bar_last = "down"))

C36_Witness ==
    /\ bar_pc = "check" /\ ~clicking /\ bar_last = "up" /\ shaping /\ bar_active
    /\ Len(ev) = 1 /\ ev[1].src = "bar" /\ ev[1].kind = "up" /\ "at" \in DOMAIN ev[1]
    /\ handover = FALSE /\ yellow_gone >= YellowGrace

\* C37: in READY the ring loop performs no detection: a READY tick that finds
\* the loop active and the target focused sends the button-down whenever
\* green_delay has elapsed, READY is left only by the click (to COOLDOWN) or by
\* a tick that finds the loop deactivated or the target unfocused (to SCAN),
\* the loss counter does not move in READY, and from the step that enters
\* TRACK up to the click the tracked point is unchanged and the loop sends no
\* pointer move.
C37_ReadyIsBlind ==
    /\ [][(ring_pc = "act" /\ state = "READY" /\ GreenDue /\ RingNext) =>
            (RingSends("down") /\ ring_pc' = "click_up")]_vars
    /\ [][(state = "READY" /\ state' # "READY") =>
            \/ state' = "COOLDOWN" /\ ring_pc = "click_up" /\ RingSends("up")
            \/ state' = "SCAN" /\ ring_pc = "check" /\ (~circle_active \/ ~focused)]_vars
    /\ [][state = "READY" => lost_frames' = lost_frames]_vars
    /\ [][(state = "TRACK" \/ state = "READY") =>
            (track' = track /\ ~RingSends("move"))]_vars
    /\ (state = "READY") ~> (ring_pc = "click_up" \/ RingInterrupted)

C37_Witness ==
    /\ state = "READY" /\ ring_pc = "click_up" /\ ev = <<Ev("ring", "down")>>
    /\ track = ScreenPos([cx |-> 145, cy |-> 160, area |-> 60])
    /\ circle_active /\ focused /\ ring_clicks = 1

\* the state the hotkeys act on
KeyActivity ==
    <<jiggle_active, bar_active, circle_active, shaping, auto_phase, phase_idx,
      ac_active, hold_active, sprint_active>>

ForgeKeys == {"circle", "jiggle", "bar_game", "auto_phase"}

\* C38: a hotkey press changes none of the loop active flags, shaping,
\* auto_phase, phase_idx, the autoclicker's, hold-left's and sprint's active
\* flags when hotkeys are disabled, when the target is not focused, or, for the
\* hotkeys circle, jiggle, bar_game and auto_phase, when forge is disabled.
C38_GuardedHotkeysChangeNothing ==
    [][\A k \in HotkeyNames :
         \/ ~(~hotkeys_enabled \/ ~focused \/ (k \in ForgeKeys /\ ~forge_enabled))
         \/ UNCHANGED KeyActivity
         \/ ~HotkeyPress(k)]_vars

C38_Witness ==
    /\ key_dropped = "bar_game" /\ ~hotkeys_enabled /\ running
    /\ forge_enabled /\ focused /\ ~bar_active /\ circle_active /\ sprint_active

\* C39: while the auto-sell component is executing its sell sequence the
\* autoclicker loop emits no click, even with the autoclicker active and the
\* target focused: a tick of the autoclicker loop that starts while executing
\* is true sends nothing and does not go on to click.
C39_NoClickWhileSelling ==
    [][(executing /\ ac_pc = "check" /\ AcNext) => (ev' = NoEv /\ ac_pc' # "press")]_vars

=============================================================================
